---- MODULE Spec2Model ----
(***************************************************************************)
(* Model of the workflow graph engine, client/src/engine/WorkflowEngine.ts. *)
(* A workflow is a list of nodes and a list of edges.  A node is a record   *)
(* [_id, type, data]; data abstracts the node's data:                       *)
(*   Input      "rows"        file content that parses to a table           *)
(*              "noContent"   empty or missing content, or content whose    *)
(*                            parse throws                                  *)
(*              "falsyJson"   JSON content that parses to a falsy value     *)
(*                            (null, 0, false, "")                          *)
(*   Transform  "supported"   a transformType the dispatch switch handles   *)
(*              "unsupported" any other transformType                       *)
(*   Output     "file"                                                      *)
(* An edge is [source, target], the _id of its source and of its target     *)
(* node object.  A node result that is a table is the sequence of the ids   *)
(* of the nodes the data has flowed through.                                *)
(***************************************************************************)
EXTENDS Integers, Sequences, FiniteSets, TLC

VARIABLES
    nodes,             \* workflow.definition.nodes
    edges,             \* workflow.definition.edges
    pc,                \* position in executeWorkflow: "start", "loop" (head
                       \* of the loop over the output nodes), "path" (inside
                       \* executePath), "done" (returned), or "ordered" (a
                       \* call of determineExecutionOrder has returned)
    validation,        \* the value validateWorkflow returned
    outputIdx,         \* index in outputNodes of the current output node
    upstreamPath,      \* the path of the current output node
    pathPos,           \* index in upstreamPath of the next node to execute
    pathResults,       \* executePath's pathResults
    nodeResults,       \* executeWorkflow's nodeResults
    allOutputResults,  \* executeWorkflow's allOutputResults
    result,            \* the ExecutionResult executeWorkflow returned
    executed,          \* history: one entry per call of executeNodeInPath,
                       \* [output, node, source, success, data]
    orderResult,       \* the value determineExecutionOrder returned
    heap,              \* the record objects of the JavaScript heap: a
                       \* function from the addresses allocated so far to
                       \* the rows stored there
    previousResults,   \* the ExecutionResults earlier calls of
                       \* executeWorkflow on this workflow returned
    activeSourceNode,  \* workflow.activeSourceNode
    uuids,             \* the number of values uuidv4() has returned
    call,              \* history: the last call of a transform function
                       \* or of an editing operation, with its arguments,
                       \* the state it started from and what it returned
    isExecuting,       \* the isExecuting state of the Sidebar
    inFlight,          \* the calls of Sidebar.executeWorkflow that wait
                       \* for the execution service, each with the workflow
                       \* it was called on
    started            \* the number of calls of Sidebar.executeWorkflow

vars == <<nodes, edges, pc, validation, outputIdx, upstreamPath, pathPos,
          pathResults, nodeResults, allOutputResults, result, executed,
          orderResult, heap, previousResults, activeSourceNode, uuids,
          call, isExecuting, inFlight, started>>

\* the variables the steps of executeWorkflow over abstract node data leave
\* alone
otherVars == <<heap, previousResults, activeSourceNode, uuids, call,
               isExecuting, inFlight, started>>

MaxNodes == 3
MaxEdges == 3

NodeTypes == {"input", "transform", "output"}

\* ------------------------------------------------------------------------
\* helpers over sequences
Range(s) == {s[i] : i \in 1..Len(s)}

Reverse(s) == [i \in 1..Len(s) |-> s[Len(s) + 1 - i]]

NodeIdSeq(ns) == [i \in 1..Len(ns) |-> ns[i]._id]

NodeIds(ns) == {ns[i]._id : i \in 1..Len(ns)}

\* nodes.find(n => n._id === id): the first node with that id
FindNode(ns, id) == ns[CHOOSE i \in 1..Len(ns) :
                         /\ ns[i]._id = id
                         /\ \A j \in 1..(i - 1) : ns[j]._id # id]

\* ------------------------------------------------------------------------
\* hasCircularDependencies / detectCycleDFS

\* adjList[id]: the targets of the edges leaving id, in edge-list order
adjList(ns, es) ==
    [id \in NodeIds(ns) |->
        LET out == SelectSeq(es, LAMBDA e : e.source = id)
        IN  [i \in 1..Len(out) |-> out[i].target]]

\* adjList[edge.source._id].push(...) on an id that is not a key of adjList
AdjListThrows(ns, es) == \E i \in 1..Len(es) : es[i].source \notin NodeIds(ns)

RECURSIVE detectCycleDFS(_, _, _)
RECURSIVE detectCycleLoop(_, _, _, _)

\* st = [found, threw, visiting, visited]; the two sets are the ones the
\* code passes by reference through the recursion
detectCycleDFS(nodeId, adj, st) ==
    IF nodeId \in st.visiting THEN [st EXCEPT !.found = TRUE]
    ELSE IF nodeId \in st.visited THEN st
    ELSE IF nodeId \notin DOMAIN adj
         THEN [st EXCEPT !.threw = TRUE,
                         !.visiting = st.visiting \cup {nodeId}]
    ELSE LET r == detectCycleLoop(adj[nodeId], 1, adj,
                     [st EXCEPT !.visiting = st.visiting \cup {nodeId}])
         IN  IF r.found \/ r.threw THEN r
             ELSE [r EXCEPT !.visiting = r.visiting \ {nodeId},
                            !.visited = r.visited \cup {nodeId}]

detectCycleLoop(nbrs, i, adj, st) ==
    IF i > Len(nbrs) THEN st
    ELSE LET r == detectCycleDFS(nbrs[i], adj, st)
         IN  IF r.found \/ r.threw THEN r
             ELSE detectCycleLoop(nbrs, i + 1, adj, r)

\* the loop over the nodes starting the search from the first node only
CircularLoop_firstNodeOnly(ns, i, adj, st) ==
    IF i > Len(ns) THEN st
    ELSE detectCycleDFS(ns[i]._id, adj, st)

RECURSIVE CircularLoop(_, _, _, _)
CircularLoop(ns, i, adj, st) ==
    IF i > Len(ns) THEN st
    ELSE IF ns[i]._id \in st.visited THEN CircularLoop(ns, i + 1, adj, st)
    ELSE LET r == detectCycleDFS(ns[i]._id, adj, st)
         IN  IF r.found \/ r.threw THEN r
             ELSE CircularLoop(ns, i + 1, adj, r)

\* "true", "false" or "throw" (a TypeError out of the adjacency build or out
\* of the iteration over the adjacency list of an id that is not a node)
hasCircularDependencies(ns, es) ==
    IF AdjListThrows(ns, es) THEN "throw"
    ELSE LET r == CircularLoop(ns, 1, adjList(ns, es),
                     [found |-> FALSE, threw |-> FALSE,
                      visiting |-> {}, visited |-> {}])
         IN  IF r.threw THEN "throw"
             ELSE IF r.found THEN "true" ELSE "false"

\* ------------------------------------------------------------------------
\* findDisconnectedNodes

\* one pass of the for loop over the edges, adding targets in place
RECURSIVE PropagatePass(_, _, _)
PropagatePass(es, i, connected) ==
    IF i > Len(es) THEN connected
    ELSE IF es[i].source \in connected /\ es[i].target \notin connected
         THEN PropagatePass(es, i + 1, connected \cup {es[i].target})
         ELSE PropagatePass(es, i + 1, connected)

\* a single pass over the edges instead of passes up to a fixed point
PropagateAll_singlePass(es, connected) == PropagatePass(es, 1, connected)

\* while (changed)
RECURSIVE PropagateAll(_, _)
PropagateAll(es, connected) ==
    LET next == PropagatePass(es, 1, connected)
    IN  IF next = connected THEN connected ELSE PropagateAll(es, next)

findDisconnectedNodes(ns, es) ==
    IF Len(ns) = 0 THEN <<>>
    ELSE LET inputIds == {ns[i]._id : i \in {j \in 1..Len(ns) : ns[j].type = "input"}}
             connectedToInput == PropagateAll(es, inputIds)
         IN  NodeIdSeq(SelectSeq(ns, LAMBDA n : n._id \notin connectedToInput))

\* ------------------------------------------------------------------------
\* validateWorkflow

ErrNoInput == "Workflow must have at least one input node"
ErrNoOutput == "Workflow must have at least one output node"
ErrCircular == "Workflow has circular dependencies"
ErrDisconnected == "Workflow has disconnected nodes"

ValidationResult(valid, error, ids, threw) ==
    [valid |-> valid, error |-> error, ids |-> ids, threw |-> threw]

\* validateWorkflow with the cycle check moved in front of the node checks
validateWorkflow_cycleFirst(ns, es) ==
    LET circular == hasCircularDependencies(ns, es)
    IN  IF circular = "throw"
        THEN ValidationResult(FALSE, "", <<>>, TRUE)
        ELSE IF circular = "true"
        THEN ValidationResult(FALSE, ErrCircular, <<>>, FALSE)
        ELSE IF Len(SelectSeq(ns, LAMBDA n : n.type = "input")) = 0
        THEN ValidationResult(FALSE, ErrNoInput, <<>>, FALSE)
        ELSE IF Len(SelectSeq(ns, LAMBDA n : n.type = "output")) = 0
        THEN ValidationResult(FALSE, ErrNoOutput, <<>>, FALSE)
        ELSE LET disconnectedNodes == findDisconnectedNodes(ns, es)
             IN  IF Len(disconnectedNodes) > 0
                 THEN ValidationResult(FALSE, ErrDisconnected,
                                       disconnectedNodes, FALSE)
                 ELSE ValidationResult(TRUE, "", <<>>, FALSE)

validateWorkflow(ns, es) ==
    IF Len(SelectSeq(ns, LAMBDA n : n.type = "input")) = 0
    THEN ValidationResult(FALSE, ErrNoInput, <<>>, FALSE)
    ELSE IF Len(SelectSeq(ns, LAMBDA n : n.type = "output")) = 0
    THEN ValidationResult(FALSE, ErrNoOutput, <<>>, FALSE)
    ELSE LET circular == hasCircularDependencies(ns, es)
         IN  IF circular = "throw"
             THEN ValidationResult(FALSE, "", <<>>, TRUE)
             ELSE IF circular = "true"
             THEN ValidationResult(FALSE, ErrCircular, <<>>, FALSE)
             ELSE LET disconnectedNodes == findDisconnectedNodes(ns, es)
                  IN  IF Len(disconnectedNodes) > 0
                      THEN ValidationResult(FALSE, ErrDisconnected,
                                            disconnectedNodes, FALSE)
                      ELSE ValidationResult(TRUE, "", <<>>, FALSE)

\* ------------------------------------------------------------------------
\* determineExecutionOrder (Kahn's algorithm)

\* inDegree counting only the edges that come from another node
inDegreeInit_ignoresSelfLoops(ns, es) ==
    [id \in NodeIds(ns) |->
        Cardinality({i \in 1..Len(es) : /\ es[i].target = id
                                        /\ es[i].source # id})]

\* inDegree[id]: number of edges whose target is id.  An edge target that is
\* not a node gets a NaN entry that is never 0 and is left out here.
inDegreeInit(ns, es) ==
    [id \in NodeIds(ns) |->
        Cardinality({i \in 1..Len(es) : es[i].target = id})]

\* the neighbour loop testing the in-degree before decrementing it
RECURSIVE KahnNeighbors_testBeforeDecrement(_, _, _)
KahnNeighbors_testBeforeDecrement(nbrs, i, st) ==
    IF i > Len(nbrs) THEN st
    ELSE IF nbrs[i] \notin DOMAIN st.inDegree
         THEN KahnNeighbors_testBeforeDecrement(nbrs, i + 1, st)
    ELSE KahnNeighbors_testBeforeDecrement(nbrs, i + 1,
             [st EXCEPT !.inDegree[nbrs[i]] = @ - 1,
                        !.queue = IF st.inDegree[nbrs[i]] = 0
                                  THEN Append(@, nbrs[i]) ELSE @])

\* for (const neighborId of adjList[currentId]) { inDegree--; push if 0 }
RECURSIVE KahnNeighbors(_, _, _)
KahnNeighbors(nbrs, i, st) ==
    IF i > Len(nbrs) THEN st
    ELSE IF nbrs[i] \notin DOMAIN st.inDegree
         THEN KahnNeighbors(nbrs, i + 1, st)
    ELSE LET d == st.inDegree[nbrs[i]] - 1
             st2 == [st EXCEPT !.inDegree[nbrs[i]] = d,
                               !.queue = IF d = 0 THEN Append(@, nbrs[i])
                                                  ELSE @]
         IN  KahnNeighbors(nbrs, i + 1, st2)

\* while (queue.length > 0) { shift; order.push; ... }
RECURSIVE KahnLoop(_, _)
KahnLoop(adj, st) ==
    IF Len(st.queue) = 0 THEN st
    ELSE LET currentId == Head(st.queue)
             st2 == [st EXCEPT !.queue = Tail(@),
                               !.order = Append(@, currentId)]
         IN  KahnLoop(adj, KahnNeighbors(adj[currentId], 1, st2))

OrderResult(success, order, threw) ==
    [success |-> success, order |-> order, threw |-> threw]

determineExecutionOrder(ns, es) ==
    IF AdjListThrows(ns, es) THEN OrderResult(FALSE, <<>>, TRUE)
    ELSE LET inDegree == inDegreeInit(ns, es)
             queue == NodeIdSeq(SelectSeq(ns, LAMBDA n : inDegree[n._id] = 0))
             final == KahnLoop(adjList(ns, es),
                         [queue |-> queue, order |-> <<>>,
                          inDegree |-> inDegree])
         IN  IF Len(final.order) # Len(ns)
             THEN OrderResult(FALSE, <<>>, FALSE)
             ELSE OrderResult(TRUE, final.order, FALSE)

\* ------------------------------------------------------------------------
\* getUpstreamPath

RECURSIVE traverse(_, _, _, _)
RECURSIVE traverseLoop(_, _, _, _, _)

\* st = [path, visited]
traverse(nodeId, ns, es, st) ==
    IF nodeId \in st.visited THEN st
    ELSE LET st2 == [st EXCEPT !.visited = @ \cup {nodeId}]
         IN  IF nodeId \notin NodeIds(ns) THEN st2
             ELSE LET sourceEdges == SelectSeq(es, LAMBDA e : e.target = nodeId)
                  IN  traverseLoop(sourceEdges, 1, ns, es,
                          [st2 EXCEPT !.path = Append(@, nodeId)])

traverseLoop(sourceEdges, i, ns, es, st) ==
    IF i > Len(sourceEdges) THEN st
    ELSE traverseLoop(sourceEdges, i + 1, ns, es,
                      traverse(sourceEdges[i].source, ns, es, st))

\* the ids of the nodes of the path, in the order executePath runs them
getUpstreamPath(outputNodeId, ns, es) ==
    Reverse(traverse(outputNodeId, ns, es,
                     [path |-> <<>>, visited |-> {}]).path)

\* ------------------------------------------------------------------------
\* executeNodeInPath and the three node executors

NoSource == 0

EmptyMap == <<>>

\* a parsed value that is falsy (null, 0, false or the empty string)
Falsy == <<0>>

\* a copy of a value is the value: a node result is modelled by its content
deepClone(data) == data

\* the source of the first incoming edge whose source has a result in
\* pathResults, or NoSource (null)
getSourceNodeIdInPath(nodeId, es, results) ==
    LET incomingEdges == SelectSeq(es, LAMBDA e : e.target = nodeId)
        hits == SelectSeq(incomingEdges, LAMBDA e : e.source \in DOMAIN results)
    IN  IF Len(hits) = 0 THEN NoSource ELSE hits[1].source

NodeResult(success, data, error, source) ==
    [success |-> success, data |-> data, error |-> error, source |-> source]

\* what parsing the content of an Input node yields
parsedData(node) == IF node.data = "falsyJson" THEN Falsy ELSE <<node._id>>

executeInputNode(node) ==
    IF node.data = "noContent"
    THEN NodeResult(FALSE, <<>>, "InputNoContentOrParseError", NoSource)
    ELSE NodeResult(TRUE, deepClone(parsedData(node)), "", NoSource)

executeTransformNodeInPath(node, es, results) ==
    LET sourceNodeId == getSourceNodeIdInPath(node._id, es, results)
    IN  IF sourceNodeId = NoSource
        THEN NodeResult(FALSE, <<>>, "NoConnectedInput", NoSource)
        ELSE LET inputData == deepClone(results[sourceNodeId])
             IN  IF inputData = Falsy
                 THEN NodeResult(FALSE, <<>>, "NoInputData", sourceNodeId)
                 ELSE IF node.data # "supported"
                 THEN NodeResult(FALSE, <<>>, "UnsupportedTransform", sourceNodeId)
                 ELSE NodeResult(TRUE, Append(inputData, node._id), "",
                                 sourceNodeId)

executeOutputNodeInPath(node, es, results) ==
    LET sourceNodeId == getSourceNodeIdInPath(node._id, es, results)
    IN  IF sourceNodeId = NoSource
        THEN NodeResult(FALSE, <<>>, "NoConnectedInput", NoSource)
        ELSE LET inputData == results[sourceNodeId]
             IN  IF inputData = Falsy
                 THEN NodeResult(FALSE, <<>>, "NoInputData", sourceNodeId)
                 ELSE NodeResult(TRUE, Append(inputData, node._id), "",
                                 sourceNodeId)

executeNodeInPath(node, es, results) ==
    CASE node.type = "input" -> executeInputNode(node)
      [] node.type = "transform" -> executeTransformNodeInPath(node, es, results)
      [] node.type = "output" -> executeOutputNodeInPath(node, es, results)
      [] OTHER -> NodeResult(FALSE, <<>>, "UnknownNodeType", NoSource)

\* ------------------------------------------------------------------------
\* the workflows handed to the engine

Node(id, type, data) == [_id |-> id, type |-> type, data |-> data]

NodeData(type) ==
    CASE type = "input" -> {"rows", "noContent", "falsyJson"}
      [] type = "transform" -> {"supported", "unsupported"}
      [] type = "output" -> {"file"}

GoodData(type) ==
    CASE type = "input" -> "rows"
      [] type = "transform" -> "supported"
      [] type = "output" -> "file"

NodeKinds == UNION {{[type |-> t, data |-> d] : d \in NodeData(t)} : t \in NodeTypes}

Edge(source, target) == [source |-> source, target |-> target]

\* the node lists of n nodes with ids 1..n in list order, of any type and
\* with any data
NodeLists(n) ==
    {[i \in 1..n |-> Node(i, k[i].type, k[i].data)] : k \in [1..n -> NodeKinds]}

\* the edge lists of m edges between the nodes 1..n (self-loops and
\* parallel edges included)
EdgeLists(n, m) ==
    [1..m -> {Edge(s, t) : s \in 1..n, t \in 1..n}]

ExecutionResult(success, kind, reason, output, node, type, data, has, nr) ==
    [success |-> success, kind |-> kind, reason |-> reason,
     output |-> output, node |-> node, type |-> type, data |-> data,
     hasNodeResults |-> has, nodeResults |-> nr]

NoResult ==
    ExecutionResult(FALSE, "none", <<"", <<>>>>, 0, 0, "", EmptyMap, FALSE,
                    EmptyMap)

NoValidation == ValidationResult(FALSE, "none", <<>>, FALSE)

NoOrder == [success |-> FALSE, order |-> <<>>, threw |-> FALSE, called |-> FALSE]

\* activeSourceNode: null
NoNode == 0

NoCall == [op |-> "none"]

InitLocals ==
    /\ pc = "start"
    /\ validation = NoValidation
    /\ outputIdx = 0
    /\ upstreamPath = <<>>
    /\ pathPos = 0
    /\ pathResults = EmptyMap
    /\ nodeResults = EmptyMap
    /\ allOutputResults = EmptyMap
    /\ result = NoResult
    /\ executed = <<>>
    /\ orderResult = NoOrder
    /\ previousResults = <<>>

\* the Sidebar as it is mounted
InitSidebar ==
    /\ isExecuting = FALSE
    /\ inFlight = <<>>
    /\ started = 0

InitRun ==
    /\ InitLocals
    /\ heap = EmptyMap
    /\ activeSourceNode = NoNode
    /\ uuids = 0
    /\ call = NoCall
    /\ InitSidebar

Init ==
    /\ \E n \in 0..MaxNodes :
          /\ nodes \in NodeLists(n)
          /\ \E m \in 0..MaxEdges : edges \in EdgeLists(n, m)
    /\ InitRun

\* workflow.definition.nodes.filter(n => n.type === 'output')
outputNodes == NodeIdSeq(SelectSeq(nodes, LAMBDA n : n.type = "output"))

\* ------------------------------------------------------------------------
\* executeWorkflow, one step per action

\* the validation step going on to the output loop whatever the validator
\* answered
Validate_ignoresRejection ==
    /\ pc = "start"
    /\ validation' = validateWorkflow(nodes, edges)
    /\ pc' = "loop"
    /\ outputIdx' = 1
    /\ UNCHANGED <<nodes, edges, upstreamPath, pathPos, pathResults,
                   nodeResults, allOutputResults, result, executed,
                   orderResult>>
    /\ UNCHANGED otherVars

\* the validator called outside the try block: what it throws leaves
\* executeWorkflow
Validate_outsideTry ==
    /\ pc = "start"
    /\ LET v == validateWorkflow(nodes, edges)
       IN  /\ validation' = v
           /\ IF v.threw
              THEN /\ result' = result
                   /\ pc' = "thrown"
              ELSE IF ~v.valid
              THEN /\ result' = ExecutionResult(FALSE, "ValidationFailed",
                                    <<v.error, v.ids>>, 0, 0, "", EmptyMap,
                                    FALSE, EmptyMap)
                   /\ pc' = "done"
              ELSE /\ result' = result
                   /\ pc' = "loop"
    /\ outputIdx' = 1
    /\ UNCHANGED <<nodes, edges, upstreamPath, pathPos, pathResults,
                   nodeResults, allOutputResults, executed, orderResult>>
    /\ UNCHANGED otherVars

\* step 1: validateWorkflow; a rejection returns at once, an exception out of
\* the validator is caught by the try block around the whole body
Validate ==
    /\ pc = "start"
    /\ LET v == validateWorkflow(nodes, edges)
       IN  /\ validation' = v
           /\ IF v.threw
              THEN /\ result' = ExecutionResult(FALSE, "ExecutionError",
                                    <<"", <<>>>>, 0, 0, "", EmptyMap, FALSE,
                                    EmptyMap)
                   /\ pc' = "done"
              ELSE IF ~v.valid
              THEN /\ result' = ExecutionResult(FALSE, "ValidationFailed",
                                    <<v.error, v.ids>>, 0, 0, "", EmptyMap,
                                    FALSE, EmptyMap)
                   /\ pc' = "done"
              ELSE /\ result' = result
                   /\ pc' = "loop"
    /\ outputIdx' = 1
    /\ UNCHANGED <<nodes, edges, upstreamPath, pathPos, pathResults,
                   nodeResults, allOutputResults, executed, orderResult>>
    /\ UNCHANGED otherVars

\* the entry of a path starting from the results already gathered by the
\* run instead of an empty pathResults
StartPath_seededWithGlobalResults ==
    /\ pc = "loop"
    /\ outputIdx <= Len(outputNodes)
    /\ upstreamPath' = getUpstreamPath(outputNodes[outputIdx], nodes, edges)
    /\ pathPos' = 1
    /\ pathResults' = nodeResults
    /\ pc' = "path"
    /\ UNCHANGED <<nodes, edges, validation, outputIdx, nodeResults,
                   allOutputResults, result, executed, orderResult>>
    /\ UNCHANGED otherVars

\* for (const outputNode of outputNodes): getUpstreamPath and the entry of
\* executePath, which starts from an empty pathResults
StartPath ==
    /\ pc = "loop"
    /\ outputIdx <= Len(outputNodes)
    /\ upstreamPath' = getUpstreamPath(outputNodes[outputIdx], nodes, edges)
    /\ pathPos' = 1
    /\ pathResults' = EmptyMap
    /\ pc' = "path"
    /\ UNCHANGED <<nodes, edges, validation, outputIdx, nodeResults,
                   allOutputResults, result, executed, orderResult>>
    /\ UNCHANGED otherVars

\* the loop body going on to the next output node when a node fails
ExecuteNode_continuesAfterFailure ==
    /\ pc = "path"
    /\ pathPos <= Len(upstreamPath)
    /\ LET node == FindNode(nodes, upstreamPath[pathPos])
           r == executeNodeInPath(node, edges, pathResults)
       IN  /\ executed' = Append(executed,
                             [output |-> outputNodes[outputIdx],
                              node |-> node._id, source |-> r.source,
                              success |-> r.success, data |-> r.data])
           /\ IF ~r.success
              THEN /\ pc' = "loop"
                   /\ outputIdx' = outputIdx + 1
                   /\ UNCHANGED <<pathResults, pathPos>>
              ELSE /\ pathResults' = (node._id :> r.data) @@ pathResults
                   /\ pathPos' = pathPos + 1
                   /\ UNCHANGED <<pc, outputIdx>>
    /\ UNCHANGED <<nodes, edges, validation, upstreamPath, result,
                   nodeResults, allOutputResults, orderResult>>
    /\ UNCHANGED otherVars

\* the loop body reporting a failure as one of the Output node
ExecuteNode_blamesOutputNode ==
    /\ pc = "path"
    /\ pathPos <= Len(upstreamPath)
    /\ LET node == FindNode(nodes, upstreamPath[pathPos])
           r == executeNodeInPath(node, edges, pathResults)
       IN  /\ executed' = Append(executed,
                             [output |-> outputNodes[outputIdx],
                              node |-> node._id, source |-> r.source,
                              success |-> r.success, data |-> r.data])
           /\ IF ~r.success
              THEN /\ result' = ExecutionResult(FALSE, "ExecutionFailed",
                                    <<r.error, <<>>>>,
                                    outputNodes[outputIdx],
                                    outputNodes[outputIdx], "output",
                                    EmptyMap, TRUE, nodeResults)
                   /\ pc' = "done"
                   /\ UNCHANGED <<pathResults, pathPos>>
              ELSE /\ pathResults' = (node._id :> r.data) @@ pathResults
                   /\ pathPos' = pathPos + 1
                   /\ UNCHANGED <<result, pc>>
    /\ UNCHANGED <<nodes, edges, validation, outputIdx, upstreamPath,
                   nodeResults, allOutputResults, orderResult>>
    /\ UNCHANGED otherVars

\* one iteration of the loop of executePath: executeNodeInPath on the next
\* node of the path; a failure returns from executePath and executeWorkflow
ExecuteNode ==
    /\ pc = "path"
    /\ pathPos <= Len(upstreamPath)
    /\ LET node == FindNode(nodes, upstreamPath[pathPos])
           r == executeNodeInPath(node, edges, pathResults)
       IN  /\ executed' = Append(executed,
                             [output |-> outputNodes[outputIdx],
                              node |-> node._id, source |-> r.source,
                              success |-> r.success, data |-> r.data])
           /\ IF ~r.success
              THEN /\ result' = ExecutionResult(FALSE, "ExecutionFailed",
                                    <<r.error, <<>>>>,
                                    outputNodes[outputIdx], node._id,
                                    node.type, EmptyMap, TRUE,
                                    nodeResults)
                   /\ pc' = "done"
                   /\ UNCHANGED <<pathResults, pathPos>>
              ELSE /\ pathResults' = (node._id :> r.data) @@ pathResults
                   /\ pathPos' = pathPos + 1
                   /\ UNCHANGED <<result, pc>>
    /\ UNCHANGED <<nodes, edges, validation, outputIdx, upstreamPath,
                   nodeResults, allOutputResults, orderResult>>
    /\ UNCHANGED otherVars

\* the end of a path storing the result of the first node of the path
FinishPath_firstNodeResult ==
    /\ pc = "path"
    /\ pathPos > Len(upstreamPath)
    /\ LET data == pathResults[upstreamPath[1]]
           outputNode == outputNodes[outputIdx]
       IN  /\ allOutputResults' = (outputNode :> data) @@ allOutputResults
           /\ nodeResults' = (outputNode :> data) @@ nodeResults
    /\ outputIdx' = outputIdx + 1
    /\ pc' = "loop"
    /\ UNCHANGED <<nodes, edges, validation, upstreamPath, pathPos,
                   pathResults, result, executed, orderResult>>
    /\ UNCHANGED otherVars

\* executePath returns the last node's result; executeWorkflow stores it
\* under the output node's id and goes on to the next output node
FinishPath ==
    /\ pc = "path"
    /\ pathPos > Len(upstreamPath)
    /\ LET lastNode == upstreamPath[Len(upstreamPath)]
           data == pathResults[lastNode]
           outputNode == outputNodes[outputIdx]
       IN  /\ allOutputResults' = (outputNode :> data) @@ allOutputResults
           /\ nodeResults' = (outputNode :> data) @@ nodeResults
    /\ outputIdx' = outputIdx + 1
    /\ pc' = "loop"
    /\ UNCHANGED <<nodes, edges, validation, upstreamPath, pathPos,
                   pathResults, result, executed, orderResult>>
    /\ UNCHANGED otherVars

\* the loop is over: return { success: true, data: allOutputResults, ... }
ReturnSuccess ==
    /\ pc = "loop"
    /\ outputIdx > Len(outputNodes)
    /\ result' = ExecutionResult(TRUE, "", <<"", <<>>>>, 0, 0, "",
                                 allOutputResults, TRUE,
                                 nodeResults)
    /\ pc' = "done"
    /\ UNCHANGED <<nodes, edges, validation, outputIdx, upstreamPath, pathPos,
                   pathResults, nodeResults, allOutputResults, executed,
                   orderResult>>
    /\ UNCHANGED otherVars

\* a call of determineExecutionOrder on the workflow
DetermineOrder ==
    /\ pc = "start"
    /\ LET r == determineExecutionOrder(nodes, edges)
       IN  orderResult' = [success |-> r.success, order |-> r.order,
                           threw |-> r.threw, called |-> TRUE]
    /\ pc' = "ordered"
    /\ UNCHANGED <<nodes, edges, validation, outputIdx, upstreamPath, pathPos,
                   pathResults, nodeResults, allOutputResults, result,
                   executed>>
    /\ UNCHANGED otherVars

Next ==
    \/ Validate
    \/ StartPath
    \/ ExecuteNode
    \/ FinishPath
    \/ ReturnSuccess
    \/ DetermineOrder

Spec == Init /\ [][Next]_vars

\* ------------------------------------------------------------------------
\* a second family of workflows: one node and one edge more than Spec, all
\* node data good, at least one Input and one Output node, and edges only
\* from an output port (not of an Output node) to the input port of another
\* node (not of an Input node)

PortNodeLists(n) ==
    {ns \in {[i \in 1..n |-> Node(i, t[i], GoodData(t[i]))] :
                t \in [1..n -> NodeTypes]} :
        /\ \E i \in 1..n : ns[i].type = "input"
        /\ \E i \in 1..n : ns[i].type = "output"}

PortEdgeLists(ns, m) ==
    [1..m -> {Edge(s, t) : s \in {i \in 1..Len(ns) : ns[i].type # "output"},
                           t \in {i \in 1..Len(ns) : ns[i].type # "input"}}
             \ {Edge(i, i) : i \in 1..Len(ns)}]

InitPorts ==
    /\ nodes \in PortNodeLists(MaxNodes + 1)
    /\ edges \in PortEdgeLists(nodes, MaxEdges + 1)
    /\ InitRun

SpecPorts == InitPorts /\ [][Next]_vars

\* ------------------------------------------------------------------------
\* graph notions the properties are stated with

EdgePairs == {<<edges[i].source, edges[i].target>> : i \in 1..Len(edges)}

\* transitive closure of a relation over the ids in S (Warshall)
RECURSIVE TransitiveClosure(_, _)
TransitiveClosure(R, S) ==
    IF S = {} THEN R
    ELSE LET k == CHOOSE x \in S : TRUE
             R1 == TransitiveClosure(R, S \ {k})
         IN  R1 \cup {<<a, b>> \in NodeIds(nodes) \X NodeIds(nodes) :
                         <<a, k>> \in R1 /\ <<k, b>> \in R1}

Paths == TransitiveClosure(EdgePairs, NodeIds(nodes))

HasCycle == \E a \in NodeIds(nodes) : <<a, a>> \in Paths

InputIds == {nodes[i]._id : i \in {j \in 1..Len(nodes) : nodes[j].type = "input"}}

OutputIds == {nodes[i]._id : i \in {j \in 1..Len(nodes) : nodes[j].type = "output"}}

\* the nodes with no forward path from any Input node
Unreachable ==
    {n \in NodeIds(nodes) \ InputIds : ~ \E i \in InputIds : <<i, n>> \in Paths}

\* the nodes with a forward path to o, and o itself
Upstream(o) == {o} \cup {n \in NodeIds(nodes) : <<n, o>> \in Paths}

IndexOf(s, x) == CHOOSE i \in 1..Len(s) : s[i] = x

IsInjective(s) == \A i, j \in 1..Len(s) : s[i] = s[j] => i = j

Validated == pc \notin {"start", "ordered"}

\* ------------------------------------------------------------------------
\* validation properties

NoInputViolated == InputIds = {}

NoOutputViolated == OutputIds = {}

\* C1: validateWorkflow reports the lowest-numbered violated check among
\* (1) an Input node exists, (2) an Output node exists, (3) no directed
\* cycle, (4) no node unreachable from the Input nodes, and answers valid
\* exactly when none of the four is violated.
C1_ChecksInOrder ==
    Validated =>
        /\ ~validation.threw
        /\ validation.valid <=>
              ~(NoInputViolated \/ NoOutputViolated \/ HasCycle
                  \/ Unreachable # {})
        /\ NoInputViolated => validation.error = ErrNoInput
        /\ (~NoInputViolated /\ NoOutputViolated) =>
              validation.error = ErrNoOutput
        /\ (~NoInputViolated /\ ~NoOutputViolated /\ HasCycle) =>
              validation.error = ErrCircular
        /\ (~NoInputViolated /\ ~NoOutputViolated /\ ~HasCycle
              /\ Unreachable # {}) =>
              validation.error = ErrDisconnected

\* a validated workflow that violates checks 2, 3 and 4 at once and is
\* answered with the error of check 2
C1_Witness ==
    /\ Validated
    /\ validation.error = ErrNoOutput
    /\ HasCycle
    /\ Unreachable # {}

\* C2 as stated: every workflow whose edges contain a directed cycle is
\* rejected with the circular-dependency error, whatever else it contains.
C2_CycleAlwaysCircularError ==
    (Validated /\ HasCycle) => validation.error = ErrCircular

\* C2 amended: every workflow with at least one Input node and at least one
\* Output node whose edges contain a directed cycle (a self-loop, a two-node
\* cycle or a longer one) is rejected with the circular-dependency error.
C2_CycleWithInputAndOutput ==
    (Validated /\ HasCycle /\ InputIds # {} /\ OutputIds # {}) =>
        /\ ~validation.valid
        /\ validation.error = ErrCircular

\* a rejected two-node cycle a -> b -> a next to an unreachable third node
C2_Witness ==
    /\ Validated
    /\ validation.error = ErrCircular
    /\ \E a, b \in NodeIds(nodes) :
          /\ a # b
          /\ <<a, b>> \in EdgePairs
          /\ <<b, a>> \in EdgePairs
          /\ <<a, a>> \notin EdgePairs
          /\ <<b, b>> \notin EdgePairs
    /\ Unreachable # {}

\* C3: an acyclic workflow with an Input and an Output node is rejected with
\* the disconnected-nodes error exactly when some node has no forward path
\* from an Input node, and the reported ids are exactly those nodes.
C3_DisconnectedExact ==
    (Validated /\ InputIds # {} /\ OutputIds # {} /\ ~HasCycle) =>
        /\ (validation.error = ErrDisconnected) <=> (Unreachable # {})
        /\ Unreachable = {} => validation.valid
        /\ Range(validation.ids) = Unreachable
        /\ IsInjective(validation.ids)
        /\ InputIds \cap Range(validation.ids) = {}

\* a rejected workflow in which exactly one node is reported, although an
\* edge joins it to a node that an Input node reaches
C3_Witness ==
    /\ Validated
    /\ validation.error = ErrDisconnected
    /\ Len(validation.ids) = 1
    /\ \E i \in 1..Len(edges) :
          /\ edges[i].source = validation.ids[1]
          /\ edges[i].target \notin InputIds
          /\ edges[i].target \notin Range(validation.ids)

\* ------------------------------------------------------------------------
\* execution order and execution properties

\* the entries of the execution log written for output node o
ExecutedFor(o) == {i \in 1..Len(executed) : executed[i].output = o}

\* the result executing output node o's own path has produced for o
OwnResult(o) ==
    executed[CHOOSE i \in ExecutedFor(o) : executed[i].node = o].data

\* C4: for every workflow that passes validateWorkflow,
\* determineExecutionOrder succeeds, its order holds every node id exactly
\* once, and the source of every edge comes before the edge's target.
C4_OrderIsTopological ==
    (pc = "ordered" /\ validateWorkflow(nodes, edges).valid) =>
        /\ orderResult.success
        /\ Len(orderResult.order) = Len(nodes)
        /\ Range(orderResult.order) = NodeIds(nodes)
        /\ IsInjective(orderResult.order)
        /\ \A i \in 1..Len(edges) :
              IndexOf(orderResult.order, edges[i].source)
                  < IndexOf(orderResult.order, edges[i].target)

\* an order computed for a valid workflow in which a node has two incoming
\* edges and the order differs from the node-list order
C4_Witness ==
    /\ pc = "ordered"
    /\ validateWorkflow(nodes, edges).valid
    /\ orderResult.success
    /\ orderResult.order # NodeIdSeq(nodes)
    /\ \E i, j \in 1..Len(edges) :
          i # j /\ edges[i].target = edges[j].target

\* C5: if validateWorkflow rejects the workflow, executeWorkflow returns
\* success = false with the validator's reason wrapped as the error, and no
\* node has been executed; a node is only ever executed on a valid workflow.
C5_RejectedRunsNothing ==
    /\ (pc = "done" /\ ~validateWorkflow(nodes, edges).valid) =>
          /\ ~result.success
          /\ result.kind = "ValidationFailed"
          /\ result.reason = <<validateWorkflow(nodes, edges).error,
                               validateWorkflow(nodes, edges).ids>>
          /\ executed = <<>>
          /\ pathResults = EmptyMap
          /\ nodeResults = EmptyMap
    /\ (executed # <<>> \/ pc \in {"loop", "path"}) =>
          validateWorkflow(nodes, edges).valid

\* a finished run on a workflow rejected for its disconnected nodes
C5_Witness ==
    /\ pc = "done"
    /\ result.kind = "ValidationFailed"
    /\ result.reason[1] = ErrDisconnected
    /\ Len(result.reason[2]) > 0
    /\ executed = <<>>

\* C6: whenever executeWorkflow returns success = true, the keys of the
\* per-output mapping are exactly the ids of the Output nodes, and each maps
\* to the result produced by executing that Output node's own path.
C6_SuccessMapsEveryOutput ==
    (pc = "done" /\ result.success) =>
        /\ DOMAIN result.data = OutputIds
        /\ \A o \in OutputIds :
              /\ \E i \in ExecutedFor(o) :
                    executed[i].node = o /\ executed[i].success
              /\ result.data[o] = OwnResult(o)
              /\ result.data[o][Len(result.data[o])] = o

\* a successful run with two Output nodes that receive different results
C6_Witness ==
    /\ pc = "done"
    /\ result.success
    /\ \E o1, o2 \in OutputIds :
          /\ o1 # o2
          /\ result.data[o1] # result.data[o2]
          /\ Len(result.data[o1]) # Len(result.data[o2])

C7_WitnessLater ==
    /\ pc = "done"
    /\ result.kind = "ExecutionFailed"
    /\ IndexOf(outputNodes, result.output) < Len(outputNodes)

\* C8 as stated: the sequence returned by getUpstreamPath for an Output node
\* of a valid workflow is in source-to-sink order: for every edge whose
\* endpoints are both in the path, the source comes before the target.
C8_PathIsTopological ==
    (pc = "path") =>
        \A i \in 1..Len(edges) :
            (edges[i].source \in Range(upstreamPath)
                /\ edges[i].target \in Range(upstreamPath)) =>
                IndexOf(upstreamPath, edges[i].source)
                    < IndexOf(upstreamPath, edges[i].target)

\* the source of the first edge of the edge list that enters node n
FirstIncomingSource(n) ==
    edges[CHOOSE i \in 1..Len(edges) :
              /\ edges[i].target = n
              /\ \A j \in 1..(i - 1) : edges[j].target # n].source

\* C9 as stated: the data a Transform or Output node consumes is always the
\* result of the source of its first incoming edge in edge-list order.
C9_ConsumesFirstIncomingEdge ==
    \A i \in 1..Len(executed) :
        (executed[i].success /\ executed[i].source # NoSource) =>
            /\ executed[i].source = FirstIncomingSource(executed[i].node)
            /\ \E j \in 1..(i - 1) :
                  /\ executed[j].output = executed[i].output
                  /\ executed[j].node = FirstIncomingSource(executed[i].node)
                  /\ executed[i].data = Append(executed[j].data, executed[i].node)

\* C10: node results are never shared between output paths: a node is
\* executed at most once within a path, in a successful run exactly once for
\* each Output node it is upstream of, and what a node consumes is a result
\* computed earlier for the same Output node.
C10_NoSharingBetweenPaths ==
    /\ \A i, j \in 1..Len(executed) :
          (executed[i].output = executed[j].output
              /\ executed[i].node = executed[j].node) => i = j
    /\ (pc = "done" /\ result.success) =>
          \A o \in OutputIds :
              {executed[i].node : i \in ExecutedFor(o)} = Upstream(o)
    /\ (pc = "path") =>
          DOMAIN pathResults =
              {executed[i].node : i \in
                  {j \in ExecutedFor(outputNodes[outputIdx]) :
                      executed[j].success}}
    /\ \A i \in 1..Len(executed) :
          (executed[i].success /\ executed[i].source # NoSource) =>
              \E j \in 1..(i - 1) :
                  /\ executed[j].output = executed[i].output
                  /\ executed[j].node = executed[i].source
                  /\ executed[j].success
                  /\ executed[i].data = Append(executed[j].data, executed[i].node)

\* a successful run in which an Input node is upstream of two Output nodes
\* and has been executed once for each
C10_Witness ==
    /\ pc = "done"
    /\ result.success
    /\ \E n \in InputIds :
          /\ \E o1, o2 \in OutputIds :
                o1 # o2 /\ n \in Upstream(o1) /\ n \in Upstream(o2)
          /\ Cardinality({i \in 1..Len(executed) : executed[i].node = n}) = 2

\* ========================================================================
\* The record-level model: tables, records and values as the transform
\* functions see them.
\*
\* A string is the sequence of its characters.  A value is a record
\* [t, s, n, d]: t is what typeof and the null test tell apart ("string",
\* "number", "null"), s the characters of a string, n / d the number (d = 0
\* is NaN).  A row is a function from the column names it has as own
\* properties to values; a table is the sequence of the heap addresses of
\* its rows.

Digits == <<"0", "1", "2", "3", "4", "5", "6", "7", "8", "9">>

Lower == <<"a", "b", "c", "d", "e", "f", "g", "h", "i", "j", "k", "l", "m",
           "n", "o", "p", "q", "r", "s", "t", "u", "v", "w", "x", "y", "z">>

Upper == <<"A", "B", "C", "D", "E", "F", "G", "H", "I", "J", "K", "L", "M",
           "N", "O", "P", "Q", "R", "S", "T", "U", "V", "W", "X", "Y", "Z">>

IsDigit(c) == c \in Range(Digits)

DigitVal(c) == (CHOOSE i \in 1..10 : Digits[i] = c) - 1

IsLetter(c) == c \in Range(Lower) \cup Range(Upper)

\* \s of the regular expressions and the characters trim() removes
IsSpace(c) == c \in {" ", "\t", "\n", "\r"}

StrV(s) == [t |-> "string", s |-> s, n |-> 0, d |-> 1]

RECURSIVE Gcd(_, _)
Gcd(a, b) == IF b = 0 THEN a ELSE Gcd(b, a % b)

Abs(x) == IF x < 0 THEN -x ELSE x

\* the number n / d, in lowest terms
NumV(n, d) ==
    LET g == Gcd(Abs(n), d)
    IN  [t |-> "number", s |-> <<>>, n |-> n \div g, d |-> d \div g]

NaN == [t |-> "number", s |-> <<>>, n |-> 0, d |-> 0]

NullV == [t |-> "null", s |-> <<>>, n |-> 0, d |-> 1]

\* the value of an expression that is undefined, such as row[c] for a row
\* without a property c
UndefinedV == [t |-> "undefined", s |-> <<>>, n |-> 0, d |-> 1]

isNaN(v) == v.d = 0

\* a < b for two numbers that are not NaN
NumLess(a, b) == a.n * b.d < b.n * a.d

\* ------------------------------------------------------------------------
\* String.prototype functions

DropWhile(s, P(_)) ==
    LET k == IF \E i \in 1..Len(s) : ~P(s[i])
             THEN CHOOSE i \in 1..Len(s) :
                      /\ ~P(s[i])
                      /\ \A j \in 1..(i - 1) : P(s[j])
             ELSE Len(s) + 1
    IN  SubSeq(s, k, Len(s))

\* s.trim()
trim(s) == Reverse(DropWhile(Reverse(DropWhile(s, IsSpace)), IsSpace))

MapChars(s, F(_)) == [i \in 1..Len(s) |-> F(s[i])]

\* s.toUpperCase()
toUpperCase(s) ==
    MapChars(s, LAMBDA c : IF c \in Range(Lower)
                           THEN Upper[CHOOSE i \in 1..26 : Lower[i] = c]
                           ELSE c)

\* s.toLowerCase()
toLowerCase(s) ==
    MapChars(s, LAMBDA c : IF c \in Range(Upper)
                           THEN Lower[CHOOSE i \in 1..26 : Upper[i] = c]
                           ELSE c)

\* s.includes(sub)
includes(s, sub) ==
    \E i \in 1..(Len(s) - Len(sub) + 1) : SubSeq(s, i, i + Len(sub) - 1) = sub

\* the index of the first occurrence of sub in s from position from on, 0
\* when there is none
IndexFrom(s, sub, from) ==
    LET hits == {i \in from..(Len(s) - Len(sub) + 1) :
                     SubSeq(s, i, i + Len(sub) - 1) = sub}
    IN  IF hits = {} THEN 0
        ELSE CHOOSE i \in hits : \A j \in hits : i <= j

\* s.split(sep) for a non-empty separator
RECURSIVE split(_, _)
split(s, sep) ==
    LET k == IndexFrom(s, sep, 1)
    IN  IF k = 0 THEN <<s>>
        ELSE <<SubSeq(s, 1, k - 1)>>
                 \o split(SubSeq(s, k + Len(sep), Len(s)), sep)

\* ------------------------------------------------------------------------
\* conversions between strings and numbers

TakeWhile(s, P(_)) == SubSeq(s, 1, Len(s) - Len(DropWhile(s, P)))

RECURSIVE DigitsToNat(_)
DigitsToNat(ds) ==
    IF ds = <<>> THEN 0
    ELSE 10 * DigitsToNat(SubSeq(ds, 1, Len(ds) - 1)) + DigitVal(ds[Len(ds)])

RECURSIVE Pow10(_)
Pow10(k) == IF k = 0 THEN 1 ELSE 10 * Pow10(k - 1)

\* parseFloat of a string: leading white space is skipped, then the longest
\* prefix of the form [+-]digits[.digits] or [+-].digits is the number;
\* NaN when there is no such prefix.  (Exponents and Infinity are not
\* modelled; no string of the model holds one.)
parseFloatStr(s) ==
    LET \* s1 without its sign
        Unsigned(s1) ==
            IF s1 # <<>> /\ s1[1] \in {"+", "-"} THEN Tail(s1) ELSE s1
        \* the digits after the point r starts with, if it starts with one
        Fraction(r) ==
            IF r # <<>> /\ r[1] = "." THEN TakeWhile(Tail(r), IsDigit)
            ELSE <<>>
        \* the number with integer digits ip and fraction digits fp
        Value(neg, ip, fp) ==
            IF ip = <<>> /\ fp = <<>> THEN NaN
            ELSE NumV((IF neg THEN -1 ELSE 1) * DigitsToNat(ip \o fp),
                      Pow10(Len(fp)))
        \* s2 follows the sign and starts with the integer digits ip
        AfterSign(neg, s2, ip) ==
            Value(neg, ip, Fraction(SubSeq(s2, Len(ip) + 1, Len(s2))))
        Signed(neg, s2) == AfterSign(neg, s2, TakeWhile(s2, IsDigit))
        \* s1 follows the leading white space
        AfterSpace(s1) == Signed(s1 # <<>> /\ s1[1] = "-", Unsigned(s1))
    IN  AfterSpace(DropWhile(s, IsSpace))

\* parseFloat(v): v is converted to a string first, so a number is its own
\* parse and null and undefined give NaN
parseFloat(v) ==
    CASE v.t = "string" -> parseFloatStr(v.s)
      [] v.t = "number" -> v
      [] OTHER -> NaN

\* parseInt(s, 10)
parseInt(s) ==
    LET Unsigned(s1) ==
            IF s1 # <<>> /\ s1[1] \in {"+", "-"} THEN Tail(s1) ELSE s1
        Value(neg, ip) ==
            IF ip = <<>> THEN NaN
            ELSE NumV((IF neg THEN -1 ELSE 1) * DigitsToNat(ip), 1)
        AfterSpace(s1) ==
            Value(s1 # <<>> /\ s1[1] = "-",
                  TakeWhile(Unsigned(s1), IsDigit))
    IN  AfterSpace(DropWhile(s, IsSpace))

RECURSIVE NatToDigits(_)
NatToDigits(k) ==
    IF k < 10 THEN <<Digits[k + 1]>>
    ELSE NatToDigits(k \div 10) \o <<Digits[(k % 10) + 1]>>

\* the number of digits a number is printed with at most
NumberDigits == 17

\* the first k digits of rem / d after the decimal point, without trailing
\* zeros
RECURSIVE FractionDigits(_, _, _)
FractionDigits(rem, d, k) ==
    IF rem = 0 \/ k = 0 THEN <<>>
    ELSE <<Digits[((rem * 10) \div d) + 1]>>
             \o FractionDigits((rem * 10) % d, d, k - 1)

\* String(x) for a number x
NumberToString(x) ==
    IF isNaN(x) THEN <<"N", "a", "N">>
    ELSE LET a == Abs(x.n)
             sign == IF x.n < 0 THEN <<"-">> ELSE <<>>
             frac == FractionDigits(a % x.d, x.d, NumberDigits)
         IN  sign \o NatToDigits(a \div x.d)
                  \o (IF frac = <<>> THEN <<>> ELSE <<".">> \o frac)

\* String(v)
String(v) ==
    CASE v.t = "string" -> v.s
      [] v.t = "number" -> NumberToString(v)
      [] v.t = "null" -> <<"n", "u", "l", "l">>
      [] OTHER -> <<"u", "n", "d", "e", "f", "i", "n", "e", "d">>

\* the longest prefix of s of the form [+-]digits[.digits] or [+-].digits
NumericPrefix(s) ==
    LET signed == IF s # <<>> /\ s[1] \in {"+", "-"} THEN 1 ELSE 0
        \* the length of the point and the digits after it r starts with
        Fraction(r) ==
            IF r # <<>> /\ r[1] = "."
            THEN 1 + Len(TakeWhile(Tail(r), IsDigit))
            ELSE 0
        Prefix(ip, fl) ==
            IF ip = 0 /\ fl <= 1 THEN <<>> ELSE SubSeq(s, 1, signed + ip + fl)
        \* ip integer digits follow the sign
        AfterSign(ip) ==
            Prefix(ip, Fraction(SubSeq(s, signed + ip + 1, Len(s))))
    IN  AfterSign(Len(TakeWhile(SubSeq(s, signed + 1, Len(s)), IsDigit)))

\* Number(v): a string must be a numeric literal as a whole, the empty
\* string is 0
Number(v) ==
    CASE v.t = "number" -> v
      [] v.t = "null" -> NumV(0, 1)
      [] v.t = "string" ->
            IF trim(v.s) = <<>> THEN NumV(0, 1)
            ELSE IF NumericPrefix(trim(v.s)) = trim(v.s)
                 THEN parseFloatStr(v.s)
                 ELSE NaN
      [] OTHER -> NaN

\* decimalPlaces outside 0..100 makes toFixed throw a RangeError
toFixedThrows(p) == ~isNaN(p) /\ (p.n < 0 \/ p.n > 100)

\* x.toFixed(p) for a number x: the decimal with p digits after the point
\* nearest to x, the larger one of two equally near; NaN places count as 0
toFixed(x, p) ==
    LET f == IF isNaN(p) THEN 0 ELSE p.n
        a == Abs(x.n)
        k == (2 * a * Pow10(f) + x.d) \div (2 * x.d)
        sign == IF x.n < 0 THEN <<"-">> ELSE <<>>
        fd == NatToDigits(k % Pow10(f))
        pad == [i \in 1..(f - Len(fd)) |-> "0"]
    IN  IF isNaN(x) THEN <<"N", "a", "N">>
        ELSE sign \o NatToDigits(k \div Pow10(f))
                  \o (IF f = 0 THEN <<>> ELSE <<".">> \o pad \o fd)

\* arithmetic on numbers that are not NaN
NumSub(a, b) == NumV(a.n * b.d - b.n * a.d, a.d * b.d)

\* a / b for b > 0
NumDiv(a, b) == NumV(a.n * b.d, a.d * b.n)

\* ------------------------------------------------------------------------
\* rows, the heap and the three ways the transform functions walk a table

\* row.hasOwnProperty(c)
hasOwnProperty(row, c) == c \in DOMAIN row

\* row[c]
Get(row, c) == IF c \in DOMAIN row THEN row[c] ELSE UndefinedV

\* row[c] = v
Set(row, c, v) ==
    [x \in DOMAIN row \cup {c} |-> IF x = c THEN v ELSE row[x]]

\* delete row[c]
Delete(row, c) == [x \in DOMAIN row \ {c} |-> row[x]]

\* what a transform function hands back: the heap it leaves, the table it
\* returns and whether it threw instead of returning
Returned(h, data) == [heap |-> h, data |-> data, threw |-> FALSE]

Thrown(h) == [heap |-> h, data |-> <<>>, threw |-> TRUE]

\* new objects for the given rows, at the next free addresses
Allocate(h, rows) ==
    Returned(h \o rows, [i \in 1..Len(rows) |-> Len(h) + i])

\* data.map(row => { ...row is assigned to...; return row }) as in
\* WorkflowEngine.ts 787-795, 802-808, 884-889: a new array of
\* the same row objects, each updated where it is.  (No table holds a row
\* object twice: parsing and deepClone allocate every row.)
MapInPlace(h, data, F(_)) ==
    Returned([a \in DOMAIN h |-> IF a \in Range(data) THEN F(h[a]) ELSE h[a]],
             data)

\* data.map(row => { const newRow = { ...row }; ...; return newRow }) as in
\* WorkflowEngine.ts 755-759, 767-773: a new
\* array of newly allocated rows
MapCopy(h, data, F(_)) ==
    Allocate(h, [i \in 1..Len(data) |-> F(h[data[i]])])

\* data.filter(row => ...) as in WorkflowEngine.ts 716-744: a new array of
\* some of the same row objects
Filter(h, data, P(_)) == Returned(h, SelectSeq(data, LAMBDA a : P(h[a])))

\* deepClone of a table of rows with primitive values: every row is
\* allocated anew
deepCloneTable(h, data) == MapCopy(h, data, LAMBDA row : row)

\* the rows of a table, by value
Rows(h, data) == [i \in 1..Len(data) |-> h[data[i]]]

\* ------------------------------------------------------------------------
\* the transform functions.  transformData is [transformType, columnName,
\* condition, targetValue]; an absent condition or targetValue is the empty
\* string, which the code treats alike (both are falsy).

\* the callback of data.filter in applyFilterTransformation
FilterKeeps(row, columnName, condition) ==
    LET value == Get(row, columnName)
    IN  IF value = UndefinedV THEN FALSE
        ELSE IF includes(condition, <<">">>)
        THEN LET parts == split(condition, <<">">>)
                 col == trim(parts[1])
                 threshold == parseFloatStr(trim(parts[2]))
                 v == parseFloat(value)
             IN  IF col = columnName
                 THEN ~isNaN(v) /\ ~isNaN(threshold) /\ NumLess(threshold, v)
                 ELSE TRUE
        ELSE IF includes(condition, <<"<">>)
        THEN LET parts == split(condition, <<"<">>)
                 col == trim(parts[1])
                 threshold == parseFloatStr(trim(parts[2]))
                 v == parseFloat(value)
             IN  IF col = columnName
                 THEN ~isNaN(v) /\ ~isNaN(threshold) /\ NumLess(v, threshold)
                 ELSE TRUE
        ELSE IF includes(condition, <<"=", "=">>)
        THEN LET parts == split(condition, <<"=", "=">>)
                 col == trim(parts[1])
                 expected == SelectSeq(trim(parts[2]),
                                       LAMBDA c : c \notin {"'", "\""})
             IN  IF col = columnName
                 THEN String(value) = expected
                 ELSE TRUE
        ELSE TRUE

applyFilterTransformation(h, data, td) ==
    IF td.columnName = <<>> \/ td.condition = <<>>
    THEN Returned(h, data)
    ELSE Filter(h, data,
                LAMBDA row : FilterKeeps(row, td.columnName, td.condition))

applyDropColumnTransformation(h, data, td) ==
    IF td.columnName = <<>>
    THEN Returned(h, data)
    ELSE MapCopy(h, data, LAMBDA row : Delete(row, td.columnName))

applyRenameColumnTransformation(h, data, td) ==
    IF td.columnName = <<>> \/ td.targetValue = <<>>
    THEN Returned(h, data)
    ELSE MapCopy(h, data,
                 LAMBDA row :
                    IF hasOwnProperty(row, td.columnName)
                    THEN Delete(Set(row, td.targetValue,
                                    row[td.columnName]),
                                td.columnName)
                    ELSE row)

applyNormalizeTransformation(h, data, td) ==
    LET c == td.columnName
        values == {parseFloat(Get(h[data[i]], c)) : i \in 1..Len(data)}
                      \ {NaN}
        min == CHOOSE v \in values : \A w \in values : ~NumLess(w, v)
        max == CHOOSE v \in values : \A w \in values : ~NumLess(v, w)
        range == NumSub(max, min)
    IN  IF c = <<>> THEN Returned(h, data)
        ELSE IF values = {} THEN Returned(h, data)
        ELSE MapInPlace(h, data,
                 LAMBDA row :
                    IF hasOwnProperty(row, c) /\ ~isNaN(parseFloat(row[c]))
                           /\ range.n # 0
                    THEN Set(row, c,
                             NumDiv(NumSub(parseFloat(row[c]), min), range))
                    ELSE row)

applyFillNATransformation(h, data, td) ==
    LET c == td.columnName
    IN  IF c = <<>> THEN Returned(h, data)
        ELSE MapInPlace(h, data,
                 LAMBDA row :
                    IF hasOwnProperty(row, c)
                           /\ (row[c] = NullV \/ row[c] = UndefinedV
                                   \/ row[c] = StrV(<<>>))
                    THEN Set(row, c, StrV(td.targetValue))
                    ELSE row)

\* the shape TRIM, TO_UPPER, TO_LOWER and STRIP_WHITESPACE share
\* (WorkflowEngine.ts 811-878, 942-963): without a
\* columnName every string value of a copy of each row is converted, with
\* one the value of that column is converted in the row itself
StringTransformation(h, data, td, F(_)) ==
    LET c == td.columnName
    IN  IF c = <<>>
        THEN MapCopy(h, data,
                 LAMBDA row :
                    [key \in DOMAIN row |->
                        IF row[key].t = "string" THEN StrV(F(row[key].s))
                        ELSE row[key]])
        ELSE MapInPlace(h, data,
                 LAMBDA row :
                    IF hasOwnProperty(row, c) /\ row[c].t = "string"
                    THEN Set(row, c, StrV(F(row[c].s)))
                    ELSE row)

applyTrimTransformation(h, data, td) == StringTransformation(h, data, td, trim)

applyToUpperTransformation(h, data, td) ==
    StringTransformation(h, data, td, toUpperCase)

applyToLowerTransformation(h, data, td) ==
    StringTransformation(h, data, td, toLowerCase)

\* s.replace(/\s+/g, '')
StripWhitespace(s) == SelectSeq(s, LAMBDA ch : ~IsSpace(ch))

applyStripWhitespaceTransformation(h, data, td) ==
    StringTransformation(h, data, td, StripWhitespace)

applyConvertToStringTransformation(h, data, td) ==
    LET c == td.columnName
    IN  IF c = <<>> THEN Returned(h, data)
        ELSE MapInPlace(h, data,
                 LAMBDA row :
                    IF hasOwnProperty(row, c)
                    THEN Set(row, c, StrV(String(row[c])))
                    ELSE row)

applyConvertToNumericTransformation(h, data, td) ==
    LET c == td.columnName
    IN  IF c = <<>> THEN Returned(h, data)
        ELSE MapInPlace(h, data,
                 LAMBDA row :
                    IF ~hasOwnProperty(row, c) THEN row
                    ELSE IF row[c].t = "string"
                    THEN IF ~isNaN(parseFloat(row[c]))
                         THEN Set(row, c, parseFloat(row[c]))
                         ELSE row
                    ELSE IF row[c].t = "number" THEN row
                    ELSE Set(row, c, Number(row[c])))

\* the shape ROUND_NUMBERS and FORMAT_NUMBERS share (WorkflowEngine.ts
\* 914-940): toFixed on every number
\* of the column, in the row itself; toFixed throws on the first such row
\* when the number of decimal places is out of its range
FixedTransformation(h, data, td, default, F(_)) ==
    LET c == td.columnName
        decimalPlaces == IF td.targetValue # <<>>
                         THEN parseInt(td.targetValue)
                         ELSE NumV(default, 1)
        applies(row) == hasOwnProperty(row, c) /\ row[c].t = "number"
    IN  IF c = <<>> THEN Returned(h, data)
        ELSE IF toFixedThrows(decimalPlaces)
                   /\ \E i \in 1..Len(data) : applies(h[data[i]])
        THEN Thrown(h)
        ELSE MapInPlace(h, data,
                 LAMBDA row :
                    IF applies(row)
                    THEN Set(row, c, F(toFixed(row[c], decimalPlaces)))
                    ELSE row)

applyRoundNumbersTransformation(h, data, td) ==
    FixedTransformation(h, data, td, 0, LAMBDA str : Number(StrV(str)))

applyFormatNumbersTransformation(h, data, td) ==
    FixedTransformation(h, data, td, 2, StrV)

\* s.replace(new RegExp(sub, 'g'), '') for a pattern sub of letters, digits
\* and blanks, which matches itself
RECURSIVE RemoveAll(_, _)
RemoveAll(s, sub) ==
    LET k == IndexFrom(s, sub, 1)
    IN  IF k = 0 THEN s
        ELSE SubSeq(s, 1, k - 1)
                 \o RemoveAll(SubSeq(s, k + Len(sub), Len(s)), sub)

\* s.replace(/[^a-zA-Z0-9\s]/g, '')
RemoveSpecialChars(s) ==
    SelectSeq(s, LAMBDA ch : IsLetter(ch) \/ IsDigit(ch) \/ IsSpace(ch))

applyRemoveSpecialCharsTransformation(h, data, td) ==
    LET c == td.columnName
    IN  IF c = <<>> THEN Returned(h, data)
        ELSE MapInPlace(h, data,
                 LAMBDA row :
                    IF hasOwnProperty(row, c) /\ row[c].t = "string"
                    THEN Set(row, c,
                             StrV(IF td.targetValue # <<>>
                                  THEN RemoveAll(row[c].s, td.targetValue)
                                  ELSE RemoveSpecialChars(row[c].s)))
                    ELSE row)

\* (s.match(/\d+(?:\.\d+)?/g) || []).join('')
RECURSIVE ExtractNumbers(_)
ExtractNumbers(s) ==
    IF s = <<>> THEN <<>>
    ELSE IF ~IsDigit(s[1]) THEN ExtractNumbers(Tail(s))
    ELSE LET ip == TakeWhile(s, IsDigit)
             r == SubSeq(s, Len(ip) + 1, Len(s))
             fp == IF r # <<>> /\ r[1] = "."
                   THEN TakeWhile(Tail(r), IsDigit)
                   ELSE <<>>
             m == IF fp = <<>> THEN ip ELSE ip \o <<".">> \o fp
         IN  m \o ExtractNumbers(SubSeq(s, Len(m) + 1, Len(s)))

applyExtractNumbersTransformation(h, data, td) ==
    LET c == td.columnName
    IN  IF c = <<>> THEN Returned(h, data)
        ELSE MapInPlace(h, data,
                 LAMBDA row :
                    IF hasOwnProperty(row, c) /\ row[c].t = "string"
                    THEN Set(row, c, StrV(ExtractNumbers(row[c].s)))
                    ELSE row)

\* s.replace(/[^a-zA-Z\s]/g, '')
ExtractStrings(s) == SelectSeq(s, LAMBDA ch : IsLetter(ch) \/ IsSpace(ch))

applyExtractStringsTransformation(h, data, td) ==
    LET c == td.columnName
    IN  IF c = <<>> THEN Returned(h, data)
        ELSE MapInPlace(h, data,
                 LAMBDA row :
                    IF hasOwnProperty(row, c) /\ row[c].t = "string"
                    THEN Set(row, c, StrV(ExtractStrings(row[c].s)))
                    ELSE row)

\* ------------------------------------------------------------------------
\* executeTransformNodeInPath's dispatch on transformType

\* the properties of the TransformType object
TransformType ==
    {"FILTER", "DROP_COLUMN", "RENAME_COLUMN", "NORMALIZE", "FILL_NA", "TRIM",
     "TO_UPPER", "TO_LOWER", "CONVERT_TO_STRING", "CONVERT_TO_NUMERIC",
     "ROUND_NUMBERS", "FORMAT_NUMBERS", "STRIP_WHITESPACE",
     "REMOVE_SPECIAL_CHARS", "EXTRACT_NUMBERS", "EXTRACT_STRINGS"}

\* the transformType of a node whose data has no transformType
UndefinedType == "undefined"

\* TransformType.NONE: the TransformType object has no property NONE, so
\* the expression is undefined
TransformType_NONE == UndefinedType

TransformData(transformType, columnName, condition, targetValue) ==
    [transformType |-> transformType, columnName |-> columnName,
     condition |-> condition, targetValue |-> targetValue]

\* what the switch hands back: whether a case other than default was taken,
\* and what the function of that case returned
Dispatched(r) ==
    [supported |-> TRUE, heap |-> r.heap, data |-> r.data, threw |-> r.threw]

\* switch (transformType) { case TransformType.NONE: ... default: ... }
applyTransformation(h, data, td) ==
    LET t == td.transformType
    IN  CASE t = TransformType_NONE -> Dispatched(Returned(h, data))
          [] t = "FILTER" ->
                Dispatched(applyFilterTransformation(h, data, td))
          [] t = "DROP_COLUMN" ->
                Dispatched(applyDropColumnTransformation(h, data, td))
          [] t = "RENAME_COLUMN" ->
                Dispatched(applyRenameColumnTransformation(h, data, td))
          [] t = "NORMALIZE" ->
                Dispatched(applyNormalizeTransformation(h, data, td))
          [] t = "FILL_NA" ->
                Dispatched(applyFillNATransformation(h, data, td))
          [] t = "TRIM" ->
                Dispatched(applyTrimTransformation(h, data, td))
          [] t = "TO_UPPER" ->
                Dispatched(applyToUpperTransformation(h, data, td))
          [] t = "TO_LOWER" ->
                Dispatched(applyToLowerTransformation(h, data, td))
          [] t = "CONVERT_TO_STRING" ->
                Dispatched(applyConvertToStringTransformation(h, data, td))
          [] t = "CONVERT_TO_NUMERIC" ->
                Dispatched(applyConvertToNumericTransformation(h, data, td))
          [] t = "ROUND_NUMBERS" ->
                Dispatched(applyRoundNumbersTransformation(h, data, td))
          [] t = "FORMAT_NUMBERS" ->
                Dispatched(applyFormatNumbersTransformation(h, data, td))
          [] t = "STRIP_WHITESPACE" ->
                Dispatched(applyStripWhitespaceTransformation(h, data, td))
          [] t = "REMOVE_SPECIAL_CHARS" ->
                Dispatched(applyRemoveSpecialCharsTransformation(h, data, td))
          [] t = "EXTRACT_NUMBERS" ->
                Dispatched(applyExtractNumbersTransformation(h, data, td))
          [] t = "EXTRACT_STRINGS" ->
                Dispatched(applyExtractStringsTransformation(h, data, td))
          [] OTHER ->
                [supported |-> FALSE, heap |-> h, data |-> <<>>,
                 threw |-> FALSE]

\* ------------------------------------------------------------------------
\* the three node executors over the heap.  The data of an Input node is
\* its file content, [kind, rows]: JSON text of an array of records (kind
\* "json", rows the records it parses to), CSV text (kind "csv", with the
\* text itself) or no text (kind "empty").  The
\* data of a Transform node is its transformData.  A node result is a
\* table, or for an Output node [content, processedData].

\* row[headers[j]] = values[j]?.trim() || '' for j = 0, 1, ...: of two equal
\* headers the later one is assigned last; a line with fewer values than
\* headers gives the empty string
CsvRow(headers, values) ==
    [h \in Range(headers) |->
        LET j == CHOOSE k \in 1..Len(headers) :
                    /\ headers[k] = h
                    /\ \A m \in 1..Len(headers) : headers[m] = h => m <= k
        IN  IF j <= Len(values) THEN StrV(trim(values[j])) ELSE StrV(<<>>)]

\* csvContent.split('\n').filter(line => line.trim() !== '')
CsvLines(csvContent) ==
    SelectSeq(split(csvContent, <<"\n">>), LAMBDA line : trim(line) # <<>>)

\* parseCSV of the engine: every line is split at every comma
parseCSV(csvContent) ==
    LET Table(lines) ==
            IF lines = <<>> THEN <<>>
            ELSE [i \in 1..(Len(lines) - 1) |->
                     CsvRow([j \in 1..Len(split(lines[1], <<",">>)) |->
                                trim(split(lines[1], <<",">>)[j])],
                            split(lines[i + 1], <<",">>))]
    IN  Table(CsvLines(csvContent))

\* the loop of parseCSVLine from index i on (i counts from 1): fields (result in
\* the code), current and inQuotes are its variables
RECURSIVE parseCSVLineFrom(_, _, _, _, _)
parseCSVLineFrom(line, i, fields, current, inQuotes) ==
    IF i > Len(line) THEN Append(fields, current)
    ELSE IF line[i] = "\"" /\ ~inQuotes
    THEN parseCSVLineFrom(line, i + 1, fields, current, TRUE)
    ELSE IF line[i] = "\"" /\ inQuotes
    THEN IF i < Len(line) /\ line[i + 1] = "\""
         THEN parseCSVLineFrom(line, i + 2, fields, Append(current, "\""),
                               inQuotes)
         ELSE parseCSVLineFrom(line, i + 1, fields, current, FALSE)
    ELSE IF line[i] = "," /\ ~inQuotes
    THEN parseCSVLineFrom(line, i + 1, Append(fields, current), <<>>,
                          inQuotes)
    ELSE parseCSVLineFrom(line, i + 1, fields, Append(current, line[i]),
                          inQuotes)

\* parseCSVLine of utils/dataParser.ts
parseCSVLine(line) == parseCSVLineFrom(line, 1, <<>>, <<>>, FALSE)

\* parseCSVToArray of utils/dataParser.ts; the headers are not trimmed
parseCSVToArray(csvContent) ==
    LET Table(lines) ==
            IF lines = <<>> THEN <<>>
            ELSE [i \in 1..(Len(lines) - 1) |->
                     CsvRow(parseCSVLine(lines[1]),
                            parseCSVLine(lines[i + 1]))]
    IN  Table(CsvLines(csvContent))

\* the file of an Input node with fileFormat "csv" and the given text
CsvContent(text) == [kind |-> "csv", rows |-> <<>>, text |-> text]

JsonContent(rows) == [kind |-> "json", rows |-> rows]

EmptyContent == [kind |-> "empty", rows |-> <<>>]

HeapResult(success, data, error, source, h) ==
    [success |-> success, data |-> data, error |-> error, source |-> source,
     heap |-> h]

\* a content that is used up by the first parse: once the heap holds
\* objects, parsing yields no record
parseJSON_drainsContent(h, fileContent) ==
    IF h = <<>> THEN Allocate(h, fileContent.rows) ELSE Returned(h, <<>>)

\* JSON.parse(fileContent): every record of the text becomes a new object
parseJSON(h, fileContent) == Allocate(h, fileContent.rows)

\* an Input node that parses its content once, into the first addresses of
\* the heap, and hands out those same rows on every call
executeInputNodeOnHeap_returnsCachedParse(node, h) ==
    IF node.data.kind = "empty"
    THEN HeapResult(FALSE, <<>>, "InputNoContentOrParseError", NoSource, h)
    ELSE LET parsed == IF Len(h) >= Len(node.data.rows)
                       THEN Returned(h, [i \in 1..Len(node.data.rows) |-> i])
                       ELSE parseJSON(h, node.data)
         IN  HeapResult(TRUE, parsed.data, "", NoSource, parsed.heap)

executeInputNodeOnHeap(node, h) ==
    IF \/ node.data.kind = "empty"
       \/ node.data.kind = "csv" /\ node.data.text = <<>>
    THEN HeapResult(FALSE, <<>>, "InputNoContentOrParseError", NoSource, h)
    ELSE LET parsed == IF node.data.kind = "csv"
                       THEN Allocate(h, parseCSV(node.data.text))
                       ELSE parseJSON(h, node.data)
             cloned == deepCloneTable(parsed.heap, parsed.data)
         IN  HeapResult(TRUE, cloned.data, "", NoSource, cloned.heap)

\* (the test !inputData never succeeds here: the result of an Input or of
\* a Transform node is an array, and an array is truthy)
executeTransformNodeOnHeap(node, es, results, h) ==
    LET sourceNodeId == getSourceNodeIdInPath(node._id, es, results)
    IN  IF sourceNodeId = NoSource
        THEN HeapResult(FALSE, <<>>, "NoConnectedInput", NoSource, h)
        ELSE LET \* r is what the switch handed back
                 Transformed(r) ==
                    IF ~r.supported
                    THEN HeapResult(FALSE, <<>>, "UnsupportedTransform",
                                    sourceNodeId, r.heap)
                    ELSE IF r.threw
                    THEN HeapResult(FALSE, <<>>, "TransformError",
                                    sourceNodeId, r.heap)
                    ELSE HeapResult(TRUE, r.data, "", sourceNodeId, r.heap)
                 \* inputData is the deep clone of the source's result
                 Cloned(inputData) ==
                    Transformed(applyTransformation(inputData.heap,
                                                    inputData.data,
                                                    node.data))
             IN  Cloned(deepCloneTable(h, results[sourceNodeId]))

\* the content is the text of the rows as they are when the node runs
executeOutputNodeOnHeap(node, es, results, h) ==
    LET sourceNodeId == getSourceNodeIdInPath(node._id, es, results)
    IN  IF sourceNodeId = NoSource
        THEN HeapResult(FALSE, <<>>, "NoConnectedInput", NoSource, h)
        ELSE LET inputData == results[sourceNodeId]
             IN  HeapResult(TRUE,
                            [content |-> Rows(h, inputData),
                             processedData |-> inputData],
                            "", sourceNodeId, h)

executeNodeOnHeap(node, es, results, h) ==
    CASE node.type = "input" -> executeInputNodeOnHeap(node, h)
      [] node.type = "transform" ->
            executeTransformNodeOnHeap(node, es, results, h)
      [] node.type = "output" -> executeOutputNodeOnHeap(node, es, results, h)
      [] OTHER -> HeapResult(FALSE, <<>>, "UnknownNodeType", NoSource, h)

\* one iteration of the loop of executePath, over the heap
ExecuteNodeOnHeap ==
    /\ pc = "path"
    /\ pathPos <= Len(upstreamPath)
    /\ LET node == FindNode(nodes, upstreamPath[pathPos])
       IN  \E r \in {executeNodeOnHeap(node, edges, pathResults, heap)} :
           /\ executed' = Append(executed,
                             [output |-> outputNodes[outputIdx],
                              node |-> node._id, source |-> r.source,
                              success |-> r.success, data |-> r.data,
                              error |-> r.error])
           /\ heap' = r.heap
           /\ IF ~r.success
              THEN /\ result' = ExecutionResult(FALSE, "ExecutionFailed",
                                    <<r.error, <<>>>>,
                                    outputNodes[outputIdx], node._id,
                                    node.type, EmptyMap, TRUE,
                                    nodeResults)
                   /\ pc' = "done"
                   /\ UNCHANGED <<pathResults, pathPos>>
              ELSE /\ pathResults' = (node._id :> r.data) @@ pathResults
                   /\ pathPos' = pathPos + 1
                   /\ UNCHANGED <<result, pc>>
    /\ UNCHANGED <<nodes, edges, validation, outputIdx, upstreamPath,
                   nodeResults, allOutputResults, orderResult,
                   previousResults, activeSourceNode, uuids, call,
                   isExecuting, inFlight, started>>

\* what a caller reads in a node result of an Output node: the content and
\* the rows of processedData as they are in heap h
OutputView(data, h) ==
    [content |-> data.content, processedData |-> Rows(h, data.processedData)]

\* what a caller reads in an ExecutionResult
ResultView(r, h) ==
    [success |-> r.success, kind |-> r.kind, reason |-> r.reason,
     output |-> r.output, node |-> r.node,
     data |-> [o \in DOMAIN r.data |-> OutputView(r.data[o], h)],
     hasNodeResults |-> r.hasNodeResults,
     nodeResults |-> [o \in DOMAIN r.nodeResults |->
                         OutputView(r.nodeResults[o], h)]]

\* the number of calls of executeWorkflow on one workflow
MaxRuns == 2

\* executeWorkflow has returned and is called again on the same workflow:
\* the call starts with new local variables; the objects of the earlier
\* call stay where they are
CallAgain ==
    /\ pc = "done"
    /\ Len(previousResults) < MaxRuns - 1
    /\ previousResults' = Append(previousResults, ResultView(result, heap))
    /\ pc' = "start"
    /\ validation' = NoValidation
    /\ outputIdx' = 0
    /\ upstreamPath' = <<>>
    /\ pathPos' = 0
    /\ pathResults' = EmptyMap
    /\ nodeResults' = EmptyMap
    /\ allOutputResults' = EmptyMap
    /\ result' = NoResult
    /\ UNCHANGED <<nodes, edges, executed, orderResult, heap,
                   activeSourceNode, uuids, call, isExecuting, inFlight,
                   started>>

\* ------------------------------------------------------------------------
\* the workflows run over the heap: one Input node, Transform nodes and two
\* Output nodes, MaxNodes + 1 nodes in all, joined by MaxEdges + 1 edges from an
\* output port to the input port of another node

S_age == <<"a", "g", "e">>

S_name == <<"n", "a", "m", "e">>

S_zip == <<"z", "i", "p">>

Row(age, name) == (S_age :> age) @@ (S_name :> name)

\* [{"age": "20", "name": " Al "}, {"age": "30", "name": "Bo"}]
PeopleRows ==
    <<Row(StrV(<<"2", "0">>), StrV(<<" ", "A", "l", " ">>)),
      Row(StrV(<<"3", "0">>), StrV(<<"B", "o">>))>>

InputContents == {JsonContent(PeopleRows), EmptyContent}

\* a transform that assigns to the rows it is given, one that copies them,
\* one that selects among them, one of a kind the library does not have and
\* one without a transformType
PathTransforms ==
    {TransformData("NORMALIZE", S_age, <<>>, <<>>),
     TransformData("DROP_COLUMN", S_name, <<>>, <<>>),
     TransformData("FILTER", S_age, S_age \o <<" ", ">", " ", "2", "5">>, <<>>),
     TransformData("MAP", S_age, <<>>, <<>>),
     TransformData(UndefinedType, S_age, <<>>, <<>>)}

HeapNodeLists(n) ==
    {[i \in 1..n |->
         IF i = 1 THEN Node(1, "input", content)
         ELSE IF i >= n - 1 THEN Node(i, "output", "file")
         ELSE Node(i, "transform", td[i])] :
        content \in InputContents, td \in [2..(n - 2) -> PathTransforms]}

InitHeap ==
    /\ nodes \in HeapNodeLists(MaxNodes + 1)
    /\ edges \in PortEdgeLists(nodes, MaxEdges + 1)
    /\ InitRun

NextHeap ==
    \/ Validate
    \/ StartPath
    \/ ExecuteNodeOnHeap
    \/ FinishPath
    \/ ReturnSuccess
    \/ CallAgain

SpecHeap == InitHeap /\ [][NextHeap]_vars

\* ------------------------------------------------------------------------
\* properties of the runs over the heap

\* the addresses of the rows delivered to output node o
DeliveredRows(o) == Range(allOutputResults[o].processedData)

\* C11: when two Output nodes have a common upstream node, the tables
\* delivered to them have no row object in common, and the rows delivered to
\* an output keep the values they had when the Output node ran, whatever
\* the paths of the other outputs (and later runs) assign to.
C11_OutputsShareNoRecord ==
    \A o1, o2 \in DOMAIN allOutputResults :
        (o1 # o2 /\ Upstream(o1) \cap Upstream(o2) # {}) =>
            /\ DeliveredRows(o1) \cap DeliveredRows(o2) = {}
            /\ Rows(heap, allOutputResults[o1].processedData)
                   = allOutputResults[o1].content

\* both outputs have their table, both fed by the same Transform node, a
\* NORMALIZE that has assigned to the rows it was given on each path
C11_Witness ==
    /\ DOMAIN allOutputResults = OutputIds
    /\ \E t \in NodeIds(nodes) :
          /\ FindNode(nodes, t).type = "transform"
          /\ FindNode(nodes, t).data.transformType = "NORMALIZE"
          /\ \A o \in OutputIds :
                /\ \E i \in ExecutedFor(o) :
                      /\ executed[i].node = o
                      /\ executed[i].source = t
                /\ allOutputResults[o].content # PeopleRows
                /\ DeliveredRows(o) # {}

\* C12: a call of executeWorkflow on a workflow that has been run before,
\* with the same nodes, edges and Input content, returns what the earlier
\* calls returned: the same success flag, the same error with the same
\* failing node and output, and for every output the same content and rows.
C12_RunsAgree ==
    (pc = "done" /\ previousResults # <<>>) =>
        \A i \in 1..Len(previousResults) :
            ResultView(result, heap) = previousResults[i]

\* a second run has succeeded after a first one, with an output whose rows
\* a NORMALIZE has assigned to
C12_Witness ==
    /\ pc = "done"
    /\ previousResults # <<>>
    /\ result.success
    /\ DOMAIN result.data = OutputIds
    /\ \E o \in OutputIds :
          /\ result.data[o].content # <<>>
          /\ result.data[o].content # PeopleRows
          /\ \E t \in NodeIds(nodes) :
                /\ <<t, o>> \in EdgePairs
                /\ FindNode(nodes, t).type = "transform"
                /\ FindNode(nodes, t).data.transformType = "NORMALIZE"

\* a second run has failed after a first one
C12_WitnessFailure ==
    /\ pc = "done"
    /\ previousResults # <<>>
    /\ ~result.success
    /\ result.kind = "ExecutionFailed"

\* ========================================================================
\* The editor: the operations of WorkflowProvider on the workflow state and
\* the handlers of the canvas that call them.  A node id is the number of
\* the uuidv4() call that made it; an edge is [_id, source, target].

MaxUuids == 5

\* the state the steps of the editor leave alone
runVars == <<pc, validation, outputIdx, upstreamPath, pathPos, pathResults,
             nodeResults, allOutputResults, result, executed, orderResult,
             heap, previousResults, isExecuting, inFlight, started>>

EdgeWithId(id, source, target) ==
    [_id |-> id, source |-> source, target |-> target]

\* the data a node is created with
NewNodeData(type) ==
    CASE type = "input" -> "noContent"
      [] type = "transform" -> "supported"
      [] type = "output" -> "file"

\* what an operation was called with and the definition it started from
Called(op, id) == [op |-> op, id |-> id, nodes |-> nodes, edges |-> edges]

\* createNewInputNode, createNewTransformNode, createNewOutputNode: addNode
\* of a node with a new id
CreateNewNode ==
    /\ Len(nodes) < MaxNodes
    /\ uuids < MaxUuids
    /\ \E type \in NodeTypes :
          nodes' = Append(nodes, Node(uuids + 1, type, NewNodeData(type)))
    /\ uuids' = uuids + 1
    /\ call' = Called("addNode", uuids + 1)
    /\ UNCHANGED <<edges, activeSourceNode, runVars>>

\* a press on the output port of a node, which every node but an Output
\* node has: setActiveSourceNode(node) finds the node and stores it
HandlePortMouseDown ==
    /\ \E i \in 1..Len(nodes) :
          /\ nodes[i].type # "output"
          /\ activeSourceNode' = nodes[i]._id
          /\ call' = Called("handlePortMouseDown", nodes[i]._id)
    /\ UNCHANGED <<nodes, edges, uuids, runVars>>

\* a release on a node of any type, as if every node had an input port
HandlePortMouseUp_onAnyNode ==
    /\ \E i \in 1..Len(nodes) :
          /\ IF activeSourceNode # NoNode
             THEN /\ Len(edges) < MaxEdges
                  /\ uuids < MaxUuids
                  /\ edges' = Append(edges,
                                     EdgeWithId(uuids + 1, activeSourceNode,
                                                nodes[i]._id))
                  /\ uuids' = uuids + 1
             ELSE UNCHANGED <<edges, uuids>>
          /\ call' = Called("handlePortMouseUp", nodes[i]._id)
    /\ activeSourceNode' = NoNode
    /\ UNCHANGED <<nodes, runVars>>

\* a release on the input port of a node, which every node but an Input
\* node has: addEdge from the active source node, if there is one, to the
\* node, then setActiveSourceNode(null)
HandlePortMouseUp ==
    /\ \E i \in 1..Len(nodes) :
          /\ nodes[i].type # "input"
          /\ IF activeSourceNode # NoNode
             THEN /\ Len(edges) < MaxEdges
                  /\ uuids < MaxUuids
                  /\ edges' = Append(edges,
                                     EdgeWithId(uuids + 1, activeSourceNode,
                                                nodes[i]._id))
                  /\ uuids' = uuids + 1
             ELSE UNCHANGED <<edges, uuids>>
          /\ call' = Called("handlePortMouseUp", nodes[i]._id)
    /\ activeSourceNode' = NoNode
    /\ UNCHANGED <<nodes, runVars>>

\* removeNode keeping the edges as they are
RemoveNode_keepsEdges ==
    /\ \E i \in 1..Len(nodes) :
          LET nodeId == nodes[i]._id
          IN  /\ nodes' = SelectSeq(nodes, LAMBDA node : node._id # nodeId)
              /\ edges' = edges
              /\ call' = Called("removeNode", nodeId)
    /\ UNCHANGED <<activeSourceNode, uuids, runVars>>

\* the delete button of a node: removeNode(node._id)
RemoveNode ==
    /\ \E i \in 1..Len(nodes) :
          LET nodeId == nodes[i]._id
          IN  /\ nodes' = SelectSeq(nodes, LAMBDA node : node._id # nodeId)
              /\ edges' = SelectSeq(edges,
                                    LAMBDA edge : /\ edge.source # nodeId
                                                  /\ edge.target # nodeId)
              /\ call' = Called("removeNode", nodeId)
    /\ UNCHANGED <<activeSourceNode, uuids, runVars>>

\* removeEdge(edgeId)
RemoveEdge ==
    /\ \E i \in 1..Len(edges) :
          LET edgeId == edges[i]._id
          IN  /\ edges' = SelectSeq(edges, LAMBDA edge : edge._id # edgeId)
              /\ call' = Called("removeEdge", edgeId)
    /\ UNCHANGED <<nodes, activeSourceNode, uuids, runVars>>

\* deleteDraft: the workflow is set to the empty one
DeleteDraft ==
    /\ nodes' = <<>>
    /\ edges' = <<>>
    /\ activeSourceNode' = NoNode
    /\ call' = Called("deleteDraft", 0)
    /\ UNCHANGED <<uuids, runVars>>

InitEdit ==
    /\ nodes = <<>>
    /\ edges = <<>>
    /\ InitRun

NextEdit ==
    \/ CreateNewNode
    \/ HandlePortMouseDown
    \/ HandlePortMouseUp
    \/ RemoveNode
    \/ RemoveEdge
    \/ DeleteDraft

SpecEdit == InitEdit /\ [][NextEdit]_vars

\* ------------------------------------------------------------------------
\* properties of the editor

\* C13: removeNode(id) leaves a definition without the node id and without
\* any edge from or to it; the other nodes and the edges not incident to id
\* are the ones of before, unchanged and in the same order.
C13_RemoveNodeFrame ==
    call.op = "removeNode" =>
        /\ \A i \in 1..Len(nodes) : nodes[i]._id # call.id
        /\ \A i \in 1..Len(edges) :
              edges[i].source # call.id /\ edges[i].target # call.id
        /\ nodes = SelectSeq(call.nodes, LAMBDA n : n._id # call.id)
        /\ edges = SelectSeq(call.edges,
                             LAMBDA e : e.source # call.id
                                            /\ e.target # call.id)

\* a node has been removed that was neither the first nor the last of three
\* nodes, with an edge to it, an edge from it and an edge that stays
C13_Witness ==
    /\ call.op = "removeNode"
    /\ Len(call.nodes) = 3
    /\ call.nodes[2]._id = call.id
    /\ \E i \in 1..Len(call.edges) : call.edges[i].source = call.id
    /\ \E i \in 1..Len(call.edges) : call.edges[i].target = call.id
    /\ Len(edges) = 1

\* C14: after any sequence of editing operations no edge of the definition
\* has the same node as its source and as its target.
C14_NoSelfLoopEdge ==
    \A i \in 1..Len(edges) : edges[i].source # edges[i].target

\* C15: after any sequence of editing operations the source and the target
\* of every edge of the definition are nodes of the definition.
C15_EdgesJoinPresentNodes ==
    \A i \in 1..Len(edges) :
        /\ edges[i].source \in NodeIds(nodes)
        /\ edges[i].target \in NodeIds(nodes)

\* C16: a Transform node that is given input data and whose transformType
\* is not a kind of the Transform Library (a node without a transformType
\* included) fails with the unsupported-transform error.
C16_UnknownKindFails ==
    \A i \in 1..Len(executed) :
        LET node == FindNode(nodes, executed[i].node)
        IN  (/\ node.type = "transform"
             /\ executed[i].source # NoSource
             /\ node.data.transformType \notin TransformType) =>
                /\ ~executed[i].success
                /\ executed[i].error = "UnsupportedTransform"

\* ========================================================================
\* The transform functions on their own: a call of the dispatch of
\* executeTransformNodeInPath on a table of up to MaxRows rows.

MaxRows == 2

S_2 == <<"2">>

S_minus1 == <<"-", "1">>

\* rows with a numeric string, a padded string, a number with a fraction,
\* null, the empty string, and a row without the column age
RowPool ==
    {Row(StrV(<<"2", "0">>), StrV(<<" ", "A", "l", " ">>)),
     Row(StrV(<<"3", "0">>), StrV(<<"B", "o">>)),
     Row(NumV(5, 2), StrV(<<"b", "-", "1", ".", "5", " ", "c">>)),
     Row(NullV, StrV(<<>>)),
     (S_name :> StrV(<<"C", "y">>))}

Tables == UNION {[1..n -> RowPool] : n \in 0..MaxRows}

ColumnNames == {<<>>, S_age, S_name, S_zip}

\* "", "> 25", "< 25", "age > 25", "age < 25", "age == 30", "name > 25"
\* and "age"
Conditions ==
    {<<>>,
     <<">", " ", "2", "5">>,
     <<"<", " ", "2", "5">>,
     S_age \o <<" ", ">", " ", "2", "5">>,
     S_age \o <<" ", "<", " ", "2", "5">>,
     S_age \o <<" ", "=", "=", " ", "3", "0">>,
     S_name \o <<" ", ">", " ", "2", "5">>,
     S_age}

TargetValues == {<<>>, S_2, S_name, S_minus1}

\* the transformData of a call: every kind of the library, a kind it does
\* not have and no kind at all; a condition only for FILTER, which alone
\* reads it, a targetValue only for the other kinds
TransformDatas ==
    {TransformData("FILTER", c, cond, <<>>) :
        c \in ColumnNames, cond \in Conditions}
    \cup {TransformData(t, c, <<>>, tv) :
            t \in (TransformType \ {"FILTER"}) \cup {"MAP", UndefinedType},
            c \in ColumnNames, tv \in TargetValues}

\* a call that has not been made yet
Pending(td, data, h) ==
    [op |-> "pending", td |-> td, data |-> data, before |-> h,
     result |-> [supported |-> FALSE, data |-> <<>>, threw |-> FALSE]]

InitTransform ==
    /\ nodes = <<>>
    /\ edges = <<>>
    /\ InitLocals
    /\ InitSidebar
    /\ activeSourceNode = NoNode
    /\ uuids = 0
    /\ \E table \in Tables, td \in TransformDatas :
          /\ heap = table
          /\ call = Pending(td, [i \in 1..Len(table) |-> i], table)

\* the switch of executeTransformNodeInPath on call.td, given the table
\* call.data
ApplyTransformation ==
    /\ call.op = "pending"
    /\ \E r \in {applyTransformation(heap, call.data, call.td)} :
          /\ heap' = r.heap
          /\ call' = [call EXCEPT
                         !.op = "returned",
                         !.result = [supported |-> r.supported,
                                     data |-> r.data, threw |-> r.threw]]
    /\ UNCHANGED <<nodes, edges, activeSourceNode, uuids, pc, validation,
                   outputIdx, upstreamPath, pathPos, pathResults,
                   nodeResults, allOutputResults, result, executed,
                   orderResult, previousResults, isExecuting, inFlight,
                   started>>

NextTransform == ApplyTransformation

SpecTransform == InitTransform /\ [][NextTransform]_vars

\* ------------------------------------------------------------------------
\* properties of the transform functions

\* the rows handed to the call, as they were before it
InputRows == Rows(call.before, call.data)

\* the rows of the table the call returned
ResultRows == Rows(heap, call.result.data)

ColumnScoped ==
    {"FILTER", "DROP_COLUMN", "RENAME_COLUMN", "NORMALIZE", "FILL_NA",
     "CONVERT_TO_STRING", "CONVERT_TO_NUMERIC", "ROUND_NUMBERS",
     "FORMAT_NUMBERS", "REMOVE_SPECIAL_CHARS", "EXTRACT_NUMBERS",
     "EXTRACT_STRINGS"}

\* C17: a column-scoped transform called with an empty columnName, or on a
\* table none of whose records has the named column, returns without an
\* error a table of the same records in the same order with the same
\* values.
C17_NoOpWithoutColumn ==
    (/\ call.op = "returned"
     /\ call.td.transformType \in ColumnScoped
     /\ \/ call.td.columnName = <<>>
        \/ \A i \in 1..Len(InputRows) :
              call.td.columnName \notin DOMAIN InputRows[i]) =>
        /\ call.result.supported
        /\ ~call.result.threw
        /\ ResultRows = InputRows

S_gt25 == <<">", " ", "2", "5">>

S_lt25 == <<"<", " ", "2", "5">>

\* the record has a value in column c that is greater than 25 read as a
\* number (less than 25 for S_lt25)
Satisfies(row, c, condition) ==
    /\ c \in DOMAIN row
    /\ ~isNaN(parseFloat(row[c]))
    /\ IF condition = S_gt25
       THEN NumLess(NumV(25, 1), parseFloat(row[c]))
       ELSE NumLess(parseFloat(row[c]), NumV(25, 1))

\* C18: FILTER on column c with the condition "> 25" or "< 25", an
\* operator and a threshold without a column name, returns exactly the
\* records whose value of c satisfies the comparison, in their order.
C18_FilterKeepsSatisfying ==
    (/\ call.op = "returned"
     /\ call.td.transformType = "FILTER"
     /\ call.td.columnName # <<>>
     /\ call.td.condition \in {S_gt25, S_lt25}) =>
        ResultRows = SelectSeq(InputRows,
                               LAMBDA row : Satisfies(row, call.td.columnName,
                                                      call.td.condition))

\* the text before the first of the operators the filter looks for, in the
\* order it looks for them, trimmed
LeftHandSide(condition) ==
    IF includes(condition, <<">">>) THEN trim(split(condition, <<">">>)[1])
    ELSE IF includes(condition, <<"<">>)
    THEN trim(split(condition, <<"<">>)[1])
    ELSE trim(split(condition, <<"=", "=">>)[1])

HasOperator(condition) ==
    \/ includes(condition, <<">">>)
    \/ includes(condition, <<"<">>)
    \/ includes(condition, <<"=", "=">>)

\* C19: FILTER on a column with a condition that holds none of the
\* operators >, < and ==, or whose left-hand side names another column,
\* returns all the records of its input, those without the filtered column
\* included.
C19_UnparseableKeepsAll ==
    (/\ call.op = "returned"
     /\ call.td.transformType = "FILTER"
     /\ call.td.columnName # <<>>
     /\ \/ ~HasOperator(call.td.condition)
        \/ /\ LeftHandSide(call.td.condition) # <<>>
           /\ LeftHandSide(call.td.condition) # call.td.columnName) =>
        ResultRows = InputRows

\* C20: after a call of a transform function the records of the table
\* handed to it have the keys and the values they had before the call.
C20_InputNotMutated ==
    call.op = "returned" =>
        Rows(heap, call.data) = Rows(call.before, call.data)

\* C21: after RENAME_COLUMN from a non-empty columnName to a non-empty
\* targetValue the result has as many records as the input, in the same
\* order; a record that had the key columnName has the key targetValue with
\* the value columnName had, a record without it is unchanged; targetValue
\* equal to columnName included.
C21_RenameMovesValue ==
    (/\ call.op = "returned"
     /\ call.td.transformType = "RENAME_COLUMN"
     /\ call.td.columnName # <<>>
     /\ call.td.targetValue # <<>>) =>
        /\ Len(ResultRows) = Len(InputRows)
        /\ \A i \in 1..Len(InputRows) :
              IF call.td.columnName \in DOMAIN InputRows[i]
              THEN /\ call.td.targetValue \in DOMAIN ResultRows[i]
                   /\ ResultRows[i][call.td.targetValue]
                          = InputRows[i][call.td.columnName]
              ELSE ResultRows[i] = InputRows[i]

\* ========================================================================
\* An Input node with a CSV file is materialized: executeInputNode on a
\* text of a header line and one line of data, written from up to two
\* field values of up to MaxFieldLen characters.

MaxFieldLen == 3

\* the characters of a field value: a letter, the separator and the quote
FieldChars == {"x", ",", "\""}

FieldValues == UNION {[1..n -> FieldChars] : n \in 0..MaxFieldLen}

\* the column names of the header line
CsvHeaders == <<<<"a">>, <<"b">>>>

\* v with every quote doubled
RECURSIVE DoubleQuotes(_)
DoubleQuotes(v) ==
    IF v = <<>> THEN <<>>
    ELSE (IF v[1] = "\"" THEN <<"\"", "\"">> ELSE <<v[1]>>)
             \o DoubleQuotes(Tail(v))

\* a value that can be written as it is: not empty, without a comma or a
\* quote
Plain(v) == v # <<>> /\ \A i \in 1..Len(v) : v[i] = "x"

\* the field value v as it is written in a line: between double quotes with
\* its quotes doubled, or as it is
WrittenField(v, quoted) ==
    IF quoted THEN <<"\"">> \o DoubleQuotes(v) \o <<"\"">> ELSE v

\* the fields fs joined by commas
RECURSIVE JoinFields(_)
JoinFields(fs) ==
    IF Len(fs) = 0 THEN <<>>
    ELSE IF Len(fs) = 1 THEN fs[1]
    ELSE fs[1] \o <<",">> \o JoinFields(Tail(fs))

\* the text with a header line of as many columns as vs has values and a
\* line of data that holds the values vs, the j-th between quotes when
\* quoted[j]
CsvText(vs, quoted) ==
    JoinFields(SubSeq(CsvHeaders, 1, Len(vs))) \o <<"\n">>
        \o JoinFields([j \in 1..Len(vs) |-> WrittenField(vs[j], quoted[j])])

InitCsv ==
    /\ edges = <<>>
    /\ InitLocals
    /\ InitSidebar
    /\ heap = <<>>
    /\ activeSourceNode = NoNode
    /\ uuids = 0
    /\ \E k \in 1..Len(CsvHeaders) :
          \E vs \in [1..k -> FieldValues], quoted \in [1..k -> BOOLEAN] :
                /\ \A j \in 1..k : quoted[j] \/ Plain(vs[j])
                /\ nodes = <<Node(1, "input",
                                  CsvContent(CsvText(vs, quoted)))>>
                /\ call = [op |-> "pending", values |-> vs, success |-> FALSE,
                           data |-> <<>>, error |-> ""]

\* executeInputNode on the Input node
ExecuteCsvInput ==
    /\ call.op = "pending"
    /\ \E r \in {executeInputNodeOnHeap(nodes[1], heap)} :
          /\ heap' = r.heap
          /\ call' = [call EXCEPT !.op = "returned", !.success = r.success,
                                  !.data = r.data, !.error = r.error]
    /\ UNCHANGED <<nodes, edges, activeSourceNode, uuids, pc, validation,
                   outputIdx, upstreamPath, pathPos, pathResults,
                   nodeResults, allOutputResults, result, executed,
                   orderResult, previousResults, isExecuting, inFlight,
                   started>>

NextCsv == ExecuteCsvInput

SpecCsv == InitCsv /\ [][NextCsv]_vars

\* the one record the text was written from
WrittenRecords ==
    <<[h \in {CsvHeaders[j] : j \in 1..Len(call.values)} |->
          StrV(call.values[CHOOSE j \in 1..Len(call.values) :
                              CsvHeaders[j] = h])]>>

\* C22: the Input node of a CSV text whose line of data was written with
\* fields between double quotes (commas kept, quotes doubled) succeeds with
\* the one record that holds the field values as they were before writing.
C22_QuotedFieldsKept ==
    call.op = "returned" =>
        /\ call.success
        /\ Rows(heap, call.data) = WrittenRecords

\* parseCSVToArray of utils/dataParser.ts, which the engine does not call,
\* gives that record for the same text
C22_DataParserKeepsQuotedFields ==
    call.op = "returned" =>
        parseCSVToArray(nodes[1].data.text) = WrittenRecords

\* ========================================================================
\* The Sidebar runs the workflow: executeWorkflow of the Sidebar calls the
\* execution service on the workflow of the render it was created in,
\* waits, and writes the result to the Output nodes with updateNode, while
\* the workflow state can be edited.  A table is a name; the data of a
\* node is a record, as createNew...Node make it.

MaxSidebarNodes == 2

\* null and undefined in a result or in a file
NoData == "null"

ResultData == {"tableA", "tableB"}

\* the name a new Output node gets, `Output ${outputNumber}`, and the name
\* the write-back uses for the only Output node, 'Output'
\* (outputNumber 0 stands for no number)
OutputName(outputNumber) == [word |-> "Output", number |-> outputNumber]

\* outputName.toLowerCase().replace(/\s+/g, '_') + '.json': a name is a
\* word, lower-cased here, and a number joined to it by "_"
JsonFilename(outputName) ==
    [word |-> IF outputName.word = "Output" THEN "output"
              ELSE outputName.word,
     number |-> outputName.number, extension |-> ".json"]

\* the empty filename
NoFilename == [word |-> "", number |-> 0, extension |-> ""]

\* JSON.stringify(finalData, null, 2)
Stringify(data) == [json |-> data, indent |-> 2]

\* a file without content
NoContent == [json |-> "undefined", indent |-> 0]

File(filename) ==
    [filename |-> filename, fileContent |-> "", fileFormat |-> "NA",
     content |-> NoContent, processedData |-> NoData]

\* the data of a node of the given type, as the Sidebar creates it; the
\* file of an Output node has the name of the node or no name
SidebarNodeData(type, outputNumber, named) ==
    CASE type = "input" -> [file |-> File(NoFilename)]
      [] type = "transform" -> TransformData("FILTER", <<>>, <<>>, <<>>)
      [] type = "output" ->
            [file |-> File(IF named
                           THEN JsonFilename(OutputName(outputNumber))
                           ELSE NoFilename)]

SidebarNodeLists ==
    UNION {{[i \in 1..n |->
                Node(i, type[i], SidebarNodeData(type[i], i, named[i]))] :
               type \in [1..n -> NodeTypes], named \in [1..n -> BOOLEAN]} :
           n \in 0..MaxSidebarNodes}

\* updateNode(nodeId, data) on the node list ns
updateNode(ns, nodeId, data) ==
    [i \in 1..Len(ns) |->
        IF ns[i]._id = nodeId
        THEN [ns[i] EXCEPT !.data = data @@ ns[i].data]
        ELSE ns[i]]

\* what the execution service hands back for a workflow: a failure; the
\* ExecutionResult of the engine, whose data has a table for every Output
\* node and which has no results property; or the response of the backend
\* with results, an object with an entry of data for node ids, here the
\* nodes of the workflow in their order.  "throws" stands for an exception
\* in the try block of the Sidebar, as reading result.success does when
\* the backend answers null.  (data and results are sequences of
\* [id, data] in the order of the keys.)
ServiceResults(workflow) ==
    {[kind |-> k, success |-> FALSE, data |-> <<>>, results |-> <<>>] :
        k \in {"failure", "throws"}}
    \cup {[kind |-> "engine", success |-> TRUE,
           data |-> SelectSeq([i \in 1..Len(workflow) |->
                                  [id |-> workflow[i]._id, data |-> d[i]]],
                              LAMBDA e :
                                 \E i \in 1..Len(workflow) :
                                    /\ workflow[i]._id = e.id
                                    /\ workflow[i].type = "output"),
           results |-> <<>>] :
            d \in [1..Len(workflow) -> ResultData]}
    \cup {[kind |-> "backend", success |-> TRUE, data |-> <<>>,
           results |-> [i \in 1..Len(workflow) |->
                           [id |-> workflow[i]._id, data |-> d[i]]]] :
            d \in [1..Len(workflow) -> ResultData \cup {NoData}]}

\* Object.keys(results).filter(id => the node of workflow with that id has
\* the given type)
KeysOfType(results, workflow, type) ==
    SelectSeq(results,
              LAMBDA e : \E i \in 1..Len(workflow) :
                            /\ workflow[i]._id = e.id
                            /\ workflow[i].type = type)

\* finalData: the data of the last entry of an Output node, or without
\* such entries of the last entry of a Transform node, or null
FinalData(results, workflow) ==
    LET Last(ids) == IF ids = <<>> THEN NoData ELSE ids[Len(ids)].data
    IN  IF KeysOfType(results, workflow, "output") # <<>>
        THEN Last(KeysOfType(results, workflow, "output"))
        ELSE Last(KeysOfType(results, workflow, "transform"))

\* outputNodes.forEach((outputNode, index) => updateNode(...)) from index on
\* (counting from 1), on the node list ns
RECURSIVE UpdateOutputNodes(_, _, _, _)
UpdateOutputNodes(ns, outputs, index, finalData) ==
    IF index > Len(outputs) THEN ns
    ELSE UpdateOutputNodes(
             updateNode(ns, outputs[index]._id,
                 [file |->
                     [outputs[index].data.file EXCEPT
                         !.filename =
                             IF @ # NoFilename THEN @
                             ELSE JsonFilename(
                                      OutputName(IF Len(outputs) > 1
                                                 THEN index ELSE 0)),
                         !.content = Stringify(finalData),
                         !.processedData = finalData]]),
             outputs, index + 1, finalData)

\* the node list after the part of executeWorkflow that follows the await,
\* for the workflow it was called on and the result r of the service
WriteBack(ns, workflow, r) ==
    LET results == IF r.kind = "backend" THEN r.results ELSE <<>>
    IN  IF r.success /\ FinalData(results, workflow) # NoData
        THEN UpdateOutputNodes(ns,
                 SelectSeq(workflow, LAMBDA n : n.type = "output"),
                 1, FinalData(results, workflow))
        ELSE ns

engineVars == <<pc, validation, outputIdx, upstreamPath, pathPos,
                pathResults, nodeResults, allOutputResults, result, executed,
                orderResult, heap, previousResults>>

\* executeWorkflow behind a Run Workflow button that is never disabled
SidebarExecuteWorkflow_buttonEnabled ==
    /\ started < MaxRuns
    /\ isExecuting' = TRUE
    /\ inFlight' = Append(inFlight, [workflow |-> nodes])
    /\ started' = started + 1
    /\ UNCHANGED <<nodes, edges, activeSourceNode, uuids, call, engineVars>>

\* a click on Run Workflow, which is disabled while isExecuting
\* (Previewer.tsx 449-453): the call of executeWorkflow up to its await
SidebarExecuteWorkflow ==
    /\ ~isExecuting
    /\ started < MaxRuns
    /\ isExecuting' = TRUE
    /\ inFlight' = Append(inFlight, [workflow |-> nodes])
    /\ started' = started + 1
    /\ UNCHANGED <<nodes, edges, activeSourceNode, uuids, call, engineVars>>

\* the service settles and executeWorkflow runs to its end
SidebarExecuteWorkflowResumes ==
    /\ inFlight # <<>>
    /\ \E r \in ServiceResults(Head(inFlight).workflow) :
          /\ nodes' = IF r.kind = "throws" THEN nodes
                      ELSE WriteBack(nodes, Head(inFlight).workflow, r)
          /\ call' = [op |-> "executeWorkflow", result |-> r,
                      workflow |-> Head(inFlight).workflow, nodes |-> nodes]
    /\ isExecuting' = FALSE
    /\ inFlight' = Tail(inFlight)
    /\ UNCHANGED <<edges, activeSourceNode, uuids, started, engineVars>>

FileFormats == {"NA", "csv"}

\* updateNode with the file of an Output node in another format
UpdateNode ==
    /\ \E i \in 1..Len(nodes), f \in FileFormats :
          /\ nodes[i].type = "output"
          /\ nodes[i].data.file.fileFormat # f
          /\ nodes' = updateNode(nodes, nodes[i]._id,
                           [file |-> [nodes[i].data.file EXCEPT
                                         !.fileFormat = f]])
          /\ call' = Called("updateNode", nodes[i]._id)
    /\ UNCHANGED <<edges, activeSourceNode, uuids, isExecuting, inFlight,
                   started, engineVars>>

InitSidebarRun ==
    /\ nodes \in SidebarNodeLists
    /\ edges = <<>>
    /\ InitRun

NextSidebar ==
    \/ SidebarExecuteWorkflow
    \/ SidebarExecuteWorkflowResumes
    \/ UpdateNode
    \/ RemoveNode

SpecSidebar == InitSidebarRun /\ [][NextSidebar]_vars

\* the service settles every call: the engine returns and a request ends
SpecSidebarFair ==
    SpecSidebar /\ WF_vars(SidebarExecuteWorkflowResumes)

\* ------------------------------------------------------------------------
\* properties of the Sidebar

\* the entries of a result of the service for the node with the given id
OwnResults(r, id) ==
    SelectSeq(IF r.kind = "backend" THEN r.results ELSE r.data,
              LAMBDA e : e.id = id /\ e.data # NoData)

\* C23: when executeWorkflow of the Sidebar has ended after a successful
\* run, every Output node for which the run computed a table has that
\* table as its processedData and the text of that table as its content.
C23_OutputsCacheOwnResult ==
    (call.op = "executeWorkflow" /\ call.result.success) =>
        \A i \in 1..Len(nodes) :
            (/\ nodes[i].type = "output"
             /\ OwnResults(call.result, nodes[i]._id) # <<>>) =>
                LET own == OwnResults(call.result, nodes[i]._id)[1].data
                IN  /\ nodes[i].data.file.processedData = own
                    /\ nodes[i].data.file.content = Stringify(own)

\* C28: when executeWorkflow of the Sidebar has ended, the nodes are the
\* nodes there were just before its write-back, no node more, and every
\* Output node has the fileFormat and, unless it was empty, the filename
\* it had just before the write-back, whatever edits were made since the
\* run started.
C28_EditsSurviveWriteBack ==
    call.op = "executeWorkflow" =>
        /\ Len(nodes) = Len(call.nodes)
        /\ \A i \in 1..Len(nodes) :
              /\ nodes[i]._id = call.nodes[i]._id
              /\ nodes[i].type = "output" =>
                    /\ nodes[i].data.file.fileFormat
                           = call.nodes[i].data.file.fileFormat
                    /\ call.nodes[i].data.file.filename # NoFilename =>
                          nodes[i].data.file.filename
                              = call.nodes[i].data.file.filename

\* C29: isExecuting is true exactly while a call of executeWorkflow of the
\* Sidebar waits for the service, at most one call waits at a time, and
\* whenever isExecuting is true it is false again later.
C29_IsExecutingWhileInFlight ==
    /\ [](isExecuting <=> inFlight # <<>>)
    /\ [](Len(inFlight) <= 1)
    /\ (isExecuting ~> ~isExecuting)

\* a second run is in flight after a first one ended with an exception
C29_Witness ==
    /\ isExecuting
    /\ inFlight # <<>>
    /\ started = MaxRuns
    /\ call.op = "executeWorkflow"
    /\ call.result.kind = "throws"

\* ------------------------------------------------------------------------
\* the ports of the canvas

\* the type of the node with this id, if the node list has it
HasType(nodeId, type) ==
    \E i \in 1..Len(nodes) : nodes[i]._id = nodeId /\ nodes[i].type = type

\* C30: in every state of the editor no edge has an Input node as its
\* target and no edge has an Output node as its source; and the node a
\* press makes the active source node, which is the source of the edge
\* the next release adds, is a node of the list that is no Output node.
C30_NoEdgeIntoInputOrOutOfOutput ==
    /\ [](\A k \in 1..Len(edges) :
             /\ ~HasType(edges[k].target, "input")
             /\ ~HasType(edges[k].source, "output"))
    /\ [][activeSourceNode' \notin {NoNode, activeSourceNode} =>
             \E i \in 1..Len(nodes) :
                 /\ nodes[i]._id = activeSourceNode'
                 /\ nodes[i].type # "output"]_vars

\* an Input node feeds an Output node after the removal of a node that
\* took an edge with it
C30_Witness ==
    /\ call.op = "removeNode"
    /\ Len(call.edges) > Len(edges)
    /\ \E k \in 1..Len(edges) :
          /\ HasType(edges[k].source, "input")
          /\ HasType(edges[k].target, "output")

\* ------------------------------------------------------------------------
\* the two cycle detectors

\* C26: when determineExecutionOrder has been called on a workflow whose
\* node ids are unique and whose edges join nodes of the list, it returned
\* success = false exactly if hasCircularDependencies reports a cycle on
\* that workflow, and neither of the two throws.
C26_CycleDetectorsAgree ==
    pc = "ordered" =>
        /\ ~orderResult.threw
        /\ hasCircularDependencies(nodes, edges) \in {"true", "false"}
        /\ ~orderResult.success
              <=> hasCircularDependencies(nodes, edges) = "true"

\* the order is refused for a cycle of two nodes entered by two parallel
\* edges
C26_Witness ==
    /\ pc = "ordered"
    /\ ~orderResult.success
    /\ hasCircularDependencies(nodes, edges) = "true"
    /\ \E i, j \in 1..Len(edges) :
          /\ i # j
          /\ edges[i] = edges[j]
          /\ edges[i].source # edges[i].target
          /\ \E k \in 1..Len(edges) :
                /\ edges[k].source = edges[i].target
                /\ edges[k].target = edges[i].source

\* the order is given for all the nodes of a workflow with parallel edges
C26_WitnessAcyclic ==
    /\ pc = "ordered"
    /\ orderResult.success
    /\ Len(orderResult.order) = MaxNodes
    /\ \E i, j \in 1..Len(edges) : i # j /\ edges[i] = edges[j]

\* ------------------------------------------------------------------------
\* the error of a failed path

\* C24: a node that failed is the last node executed: the run is over, the
\* nodes after it in the path of the Output node being computed were not
\* executed for that Output node, and the result is the failure
\* "Execution failed for output node <id>: Node <id> (<type>) execution
\* failed: ..." with the id of that Output node and the id and the type of
\* the node that failed.
C24_FailureStopsPathAndIsNamed ==
    \A i \in 1..Len(executed) :
        ~executed[i].success =>
            /\ i = Len(executed)
            /\ pc = "done"
            /\ ~result.success
            /\ result.kind = "ExecutionFailed"
            /\ result.output = executed[i].output
            /\ result.output = outputNodes[outputIdx]
            /\ result.node = executed[i].node
            /\ result.type = FindNode(nodes, executed[i].node).type
            /\ upstreamPath[pathPos] = executed[i].node
            /\ \A k \in (pathPos + 1)..Len(upstreamPath) :
                  \A j \in ExecutedFor(result.output) :
                      executed[j].node # upstreamPath[k]

\* a Transform node failed with nodes of the path still to come
C24_Witness ==
    /\ pc = "done"
    /\ result.kind = "ExecutionFailed"
    /\ result.type = "transform"
    /\ pathPos < Len(upstreamPath)
    /\ Len(executed) > 1

\* ------------------------------------------------------------------------
\* executeWorkflow on the workflows the editor leaves behind: an edge added
\* by a release after the removal of the node that was pressed has a source
\* that is no node of the list (removeNode takes the edges of the removed
\* node with it, so the target of an edge is always in the list)

MaxDanglingNodes == 2
MaxDanglingEdges == 2

\* the edge lists of m edges into the nodes 1..n, from these nodes or from
\* a removed node
DanglingEdgeLists(n, m) ==
    [1..m -> {Edge(s, t) : s \in 1..(n + 1), t \in 1..n}]

InitDangling ==
    /\ \E n \in 0..MaxDanglingNodes :
          /\ nodes \in NodeLists(n)
          /\ \E m \in 0..MaxDanglingEdges : edges \in DanglingEdgeLists(n, m)
    /\ InitRun

\* the steps of one call of executeWorkflow
NextEngine ==
    \/ Validate
    \/ StartPath
    \/ ExecuteNode
    \/ FinishPath
    \/ ReturnSuccess

SpecDangling == InitDangling /\ [][NextEngine]_vars

\* executeWorkflow awaits only promises of its own async methods, which
\* settle without any outside event: a call that can take a step takes it
SpecDanglingFair == SpecDangling /\ WF_vars(NextEngine)

\* { success: true, data, nodeResults } or { success: false, error }
StructuredResult ==
    /\ result.success \in BOOLEAN
    /\ result.success => result.kind = ""
    /\ ~result.success =>
          result.kind \in {"ValidationFailed", "ExecutionFailed",
                           "ExecutionError"}

\* C25: every call of executeWorkflow ends, nothing it calls throws out of
\* it, and when it has ended its result is an object with a boolean
\* success and, when success is false, an error: this for the empty
\* workflow, for workflows with cycles and for workflows with an edge from
\* a node that is no longer in the node list.
C25_AlwaysStructuredResult ==
    /\ [](pc # "thrown")
    /\ [](pc = "done" => StructuredResult)
    /\ <>(pc = "done")

\* a workflow with an Input and an Output node and an edge from a removed
\* node ends with the error of the catch block
C25_Witness ==
    /\ pc = "done"
    /\ result.kind = "ExecutionError"
    /\ \E i \in 1..Len(nodes) : nodes[i].type = "input"
    /\ \E i \in 1..Len(nodes) : nodes[i].type = "output"
    /\ \E k \in 1..Len(edges) : edges[k].source \notin NodeIds(nodes)

\* the empty workflow is rejected
C25_WitnessEmpty ==
    /\ pc = "done"
    /\ nodes = <<>>
    /\ result.kind = "ValidationFailed"

\* a workflow with an Input and an Output node and a cycle is rejected
C25_WitnessCycle ==
    /\ pc = "done"
    /\ result.kind = "ValidationFailed"
    /\ result.reason[1] = ErrCircular

\* ------------------------------------------------------------------------
\* validation and success

\* every Input node has content that parses to rows and every Transform
\* node has a supported kind
AllDataGood ==
    \A i \in 1..Len(nodes) : nodes[i].data = GoodData(nodes[i].type)

\* C27 as stated: a run of a workflow that passed validateWorkflow and
\* whose nodes all have good data ends with success = true; no node fails
\* for having no connected input data in its path.
C27_ValidMeansSuccess ==
    (validation.valid /\ AllDataGood) =>
        /\ pc = "done" => result.success
        /\ \A i \in 1..Len(executed) : executed[i].success

====
